---- MODULE Spec2Model ----
(***************************************************************************)
(* x86-64 lowering of the Luau IR (CodeGen/src/IrLoweringX64.cpp).         *)
(*                                                                         *)
(* The model follows one IrLoweringX64 object through the lowering of one  *)
(* function: lowerInst is applied to one IR instruction after the other,   *)
(* finishBlock at each block end and finishFunction at the end.  The IR    *)
(* function is not fixed in advance: every step draws the next instruction *)
(* (opcode, operands, and which operands see their last use) from a menu,  *)
(* so the reachable states cover every instruction stream up to the        *)
(* bounds.  SpecRegs lowers value instructions and interrupts, SpecSpill   *)
(* loads and interrupts up to the spill budget, SpecExits guards and jumps *)
(* to VM exits, SpecBranch two-way branches.                               *)
(*                                                                         *)
(* A lowering step threads a context record cx through the operators that  *)
(* model the C++ calls:                                                    *)
(*   cx.inst      function.instructions (regX64, spilled, needsReload,     *)
(*                lastUse of every IR value)                               *)
(*   cx.regs      IrRegAllocX64 (free map, users, spills, maxUsedSlot)     *)
(*   cx.mach      symbolic contents of machine registers and spill slots   *)
(*                at the current point of the emitted code                 *)
(*   cx.build     AssemblyBuilderX64 (label counter, emitted instructions) *)
(*   cx.exitHandlers, cx.exitHandlerMap, cx.interruptHandlers              *)
(*   cx.fault     the LUAU_ASSERT that failed, "" when none did            *)
(*   cx.obs       observations used only by the properties (the operand    *)
(*                reads, the register state at an interrupt check, the     *)
(*                largest number of spill slots in use at once)            *)
(***************************************************************************)
EXTENDS Integers, Sequences, FiniteSets, TLC

\* ------------------------------------------------------------------ bounds
MaxInsts == 5
NumBlocks == 2
MaxPc == 1
NumGpr == 4
NumXmm == 4
NumVmRegs == 1
kSpillSlots == 1
\* instructions lowered in the runs of SpecRegs (block ends not counted), of
\* SpecExits and of SpecBranch
MaxRegInsts == 4
MaxExitInsts == 4
MaxBranchInsts == 3
\* instructions lowered in the runs of SpecGuards
MaxGuardInsts == 3
\* instructions lowered in the runs of SpecArith
MaxArithInsts == 3
\* instructions lowered in the runs of SpecTable
MaxTableInsts == 3
\* instructions lowered in the runs of SpecOperands
MaxOperandInsts == 3
\* instructions lowered in the runs of SpecNum
MaxNumInsts == 2
\* instructions lowered in the runs of SpecCalls (block ends not counted)
MaxCallInsts == 3
\* instructions lowered before the fallbacks in the runs of SpecAsserts
MaxFallbackInsts == 3
\* instructions lowered in the runs of SpecCoverage
MaxCoverageInsts == 3
\* the doubles the emitted code is run on: bits of the significand, and bits
\* of the fraction of the smallest doubles
Precision == 4
FractionBits == 5

\* ------------------------------------------------------------ IR operands
kVmExitEntryGuardPc == MaxPc + 1

Pcs == 0..MaxPc
Blocks == 1..NumBlocks
\* the block after the last one is the driver's dummy block
DummyBlock == NumBlocks + 1

Op(kind, index) == [kind |-> kind, index |-> index]
NoneOp == Op("None", 0)
UndefOp == Op("Undef", 0)

vmExitOp(op) == op.index
intOp(op) == op.index
uintOp(op) == op.index
vmRegOp(op) == op.index
conditionOp(op) == IF op.kind = "Condition" THEN op.index ELSE "Count"
tagOp(op) == op.index

\* IrBlock::start: blocks are laid out one after the other, so the start
\* index identifies the block
BlockStart(b) == b

\* ----------------------------------------------------------------- labels
\* Label::id; 0 is a label no instruction has referenced yet
exitContinueVmClearNativeFlag == 1
interruptLabel == 2
updatePcAndContinueInVm == 3
FirstBlockLabel == updatePcAndContinueInVm
FirstFreshLabel == FirstBlockLabel + NumBlocks + 1

BlockLabel(b) == FirstBlockLabel + b

\* function.blockOp asserts the operand is a block
blockOp(op) == op.index
labelOp(op) == BlockLabel(blockOp(op))

\* ------------------------------------------------------ assembly builder
Emit(cx, ins) ==
  [cx EXCEPT !.build.code = Append(@, ins)]

\* an emitted instruction: mnemonic, condition and label of a branch, the IR
\* operand the branch was emitted for, immediate operand
Ins(op, cond, label, target) ==
  [op |-> op, cond |-> cond, label |-> label, target |-> target, imm |-> 0]

InsImm(op, imm) ==
  [op |-> op, cond |-> "", label |-> 0, target |-> NoneOp, imm |-> imm]

Plain(op) == Ins(op, "", 0, NoneOp)

Fault(cx, msg) ==
  IF cx.fault # "" THEN cx ELSE [cx EXCEPT !.fault = msg]

\* AssemblyBuilderX64 gives a label its id the first time an instruction
\* references it; fresh is the local Label of the caller
RefLabel(cx, label) ==
  IF label = 0 THEN cx.build.nextLabel ELSE label

BumpLabel(cx, label) ==
  IF label = 0 THEN [cx EXCEPT !.build.nextLabel = @ + 1] ELSE cx

getReverseCondition(cond) ==
  CASE cond = "Equal" -> "NotEqual"
    [] cond = "NotEqual" -> "Equal"
    [] cond = "Zero" -> "NotZero"
    [] cond = "NotZero" -> "Zero"
    [] cond = "Less" -> "NotLess"
    [] cond = "NotLess" -> "Less"
    [] cond = "BelowEqual" -> "NotBelowEqual"
    [] cond = "NotBelowEqual" -> "BelowEqual"
    [] cond = "AboveEqual" -> "NotAboveEqual"
    [] cond = "NotAboveEqual" -> "AboveEqual"
    [] OTHER -> "Count"

\* an instruction with its operands: operand width in bits, destination and
\* sources.  A Plain instruction has no operands: what it computes is not
\* modelled
Asm(op, w, dst, src) ==
  [op |-> op, cond |-> "", label |-> 0, target |-> NoneOp, imm |-> 0,
   w |-> w, dst |-> dst, src |-> src]

HasOperands(ins) == "dst" \in DOMAIN ins

\* OperandX64: a register, an immediate, the field of the object a register
\* points to (base 0: of the VM state), a VM register or constant, a spill
\* slot
RegArg(r) == [k |-> "reg", r |-> r]
ImmArg(v) == [k |-> "imm", v |-> v]
MemArg(base, field) == [k |-> "mem", base |-> base, field |-> field]
VmArg(op) == [k |-> "vm", op |-> op]
\* the tag field of a VM register or constant (VmArg is its value field)
luauRegTag(op) == [k |-> "vmtag", op |-> op]
SlotArg(s) == [k |-> "slot", s |-> s]
NoArg == [k |-> "none"]
\* RoundingModeX64, the last operand of vroundsd
RoundToNegativeInfinity == [k |-> "mode", mode |-> "RoundToNegativeInfinity"]
RoundToZero == [k |-> "mode", mode |-> "RoundToZero"]

\* ------------------------------------------------------ machine registers
\* RegisterX64: 0 is noreg, then the general purpose registers in
\* allocation order (rcx is the second), then the xmm registers
noreg == 0
rcx == 2
\* rax, the register a called function returns its result in
rax == 1
kInvalidInstIdx == 0

Gprs == 1..NumGpr
Xmms == (NumGpr + 1)..(NumGpr + NumXmm)
Regs == Gprs \cup Xmms

RegClass(reg) == IF reg \in Xmms THEN "xmm" ELSE "gpr"
ClassRegs(cls) == IF cls = "xmm" THEN Xmms ELSE Gprs

\* contents of a register or slot the lowering knows nothing about
Junk == 0

InstIds == 1..MaxInsts
\* lastUse of a value whose last use has not been lowered yet
Later == MaxInsts + 1
SpillArea == 0..MaxInsts

Min(S) == CHOOSE x \in S : \A y \in S : x <= y
Max(a, b) == IF a > b THEN a ELSE b

R(cx, reg) == [cx |-> cx, reg |-> reg]

\* F applied to v; gives the result of a call a name that is evaluated once
With(v, F(_)) == F(v)

\* ---------------------------------------------------------- machine words
\* a 64-bit word is the function from bit positions to bits
Bit == 0..63

\* the word of a natural number below 2^31
Word(n) == [i \in Bit |-> i < 31 /\ (n \div (2 ^ i)) % 2 = 1]
Zero == [i \in Bit |-> FALSE]
\* the word with only bit n set, the word with the w low bits set
BitAt(n) == [i \in Bit |-> i = n]
LowOnes(w) == [i \in Bit |-> i < w]
\* what a load from an address the code has no business reading gives
Wild == [i \in Bit |-> i % 3 = 1]

lowBits(v, w) == [i \in Bit |-> i < w /\ v[i]]

\* a w-bit write to a register holding old: a 32-bit write clears the upper
\* half, an 8-bit write leaves the other bits
writeReg(old, new, w) ==
  [i \in Bit |-> IF i < w THEN new[i] ELSE (w < 32 /\ old[i])]

bitAnd(a, b) == [i \in Bit |-> a[i] /\ b[i]]
bitOr(a, b) == [i \in Bit |-> a[i] \/ b[i]]
bitXor(a, b) == [i \in Bit |-> a[i] # b[i]]
bitNot(a, w) == [i \in Bit |-> i < w /\ ~a[i]]
shiftLeft(a, n, w) == [i \in Bit |-> i < w /\ i >= n /\ a[i - n]]
shiftRight(a, n, w) == [i \in Bit |-> i + n < w /\ a[i + n]]
\* sar: the sign bit fills the bits the shift leaves
shiftRightArith(a, n, w) ==
  [i \in Bit |-> i < w /\ (IF i + n < w THEN a[i + n] ELSE a[w - 1])]

\* the carries of a + b + c0 into the bits 0..w, as the sequence acc
RECURSIVE carries(_, _, _, _)
carries(a, b, acc, w) ==
  IF Len(acc) > w THEN acc
  ELSE carries(a, b,
               Append(acc, \/ (a[Len(acc) - 1] /\ b[Len(acc) - 1])
                           \/ (acc[Len(acc)] /\ (a[Len(acc) - 1] # b[Len(acc) - 1]))),
               w)

addCarry(a, b, c0, w) ==
  With(carries(a, b, << c0 >>, w), LAMBDA c :
    [i \in Bit |-> i < w /\ ((a[i] # b[i]) # c[i + 1])])

wordAdd(a, b, w) == addCarry(a, b, FALSE, w)
wordSub(a, b, w) == addCarry(a, bitNot(b, w), TRUE, w)

\* a < b as unsigned and as signed w-bit numbers
below(a, b, w) == ~carries(a, bitNot(b, w), << TRUE >>, w)[w + 1]
less(a, b, w) == IF a[w - 1] # b[w - 1] THEN a[w - 1] ELSE below(a, b, w)

\* the shift count an instruction takes from the low bits of v
RECURSIVE countFrom(_, _)
countFrom(v, i) == IF i < 0 THEN 0 ELSE (IF v[i] THEN 2 ^ i ELSE 0) + countFrom(v, i - 1)
shiftCount(v, w) == countFrom(v, IF w = 64 THEN 5 ELSE 4)

\* doubles are run at a reduced precision.  A double is a sign (bit 63) and
\* a magnitude (the low bits) counted in units of 2^-FractionBits, of which
\* only the Precision leading bits may be set: the numbers of a binary
\* floating-point format with Precision bits of significand whose smallest
\* step is one unit.  Every operation gives the double nearest to the exact
\* result, the one with the even significand when two are as near.
DoubleUnit == 2 ^ FractionBits
\* the largest magnitude a double of the model holds, in units
MaxMagnitude == 2 ^ 14 - 1

Dbl(neg, n) == [i \in Bit |-> IF i = 63 THEN neg ELSE i < 14 /\ (n \div (2 ^ i)) % 2 = 1]
\* the whole number n, the magnitude of v in units, the number v holds in units
Fix(n) == Dbl(n < 0, (IF n < 0 THEN -n ELSE n) * DoubleUnit)
fixNum(v) == countFrom(v, 13)
signedNum(v) == IF v[63] THEN -fixNum(v) ELSE fixNum(v)
isFinite(v) == \A i \in 14..62 : ~v[i]

\* the number of bits of n, and the step between the doubles at magnitude n
bitLength(n) == CHOOSE k \in 0..30 : n < 2 ^ k /\ (k = 0 \/ n >= 2 ^ (k - 1))
stepAt(n) == IF bitLength(n) > Precision THEN 2 ^ (bitLength(n) - Precision) ELSE 1
isDouble(n) == n % stepAt(n) = 0

\* num / den units rounded to a double: base is the double below, twice the
\* rest doubled and scaled by den
roundFrom(base, st, twice, den) ==
  IF twice < st * den THEN base
  ELSE IF twice > st * den THEN base + st
  ELSE IF (base \div st) % 2 = 0 THEN base ELSE base + st

roundBelow(q, r, st, den) ==
  roundFrom((q \div st) * st, st, 2 * ((q % st) * den + r), den)

roundQ(num, den) == roundBelow(num \div den, num % den, stepAt(num \div den), den)

\* the sum of the signed numbers of a and b: a zero sum is negative only when
\* both are
sumOf(a, b, t) ==
  Dbl(IF t = 0 THEN a[63] /\ b[63] ELSE t < 0, roundQ(IF t < 0 THEN -t ELSE t, 1))

fixAdd(a, b) == sumOf(a, b, signedNum(a) + signedNum(b))
fixNeg(a) == [a EXCEPT ![63] = ~@]
fixSub(a, b) == fixAdd(a, fixNeg(b))
fixMul(a, b) == Dbl(a[63] # b[63], roundQ(fixNum(a) * fixNum(b), DoubleUnit))
fixDiv(a, b) == Dbl(a[63] # b[63], roundQ(fixNum(a) * DoubleUnit, fixNum(b)))
\* vroundsd to an integer, towards zero or towards minus infinity
fixTrunc(a) == Dbl(a[63], (fixNum(a) \div DoubleUnit) * DoubleUnit)
fixFloor(a) ==
  IF a[63] /\ fixNum(a) % DoubleUnit # 0
  THEN Dbl(TRUE, (fixNum(a) \div DoubleUnit) * DoubleUnit + DoubleUnit)
  ELSE fixTrunc(a)
\* the largest double below one half: 0x3fdfffffffffffff
halfBelow == 2 ^ (FractionBits - 1) - stepAt(2 ^ (FractionBits - 1) - 1)

\* the magnitudes of a sum, a product and a quotient before they are stored
sumMagnitude(a, b) ==
  roundQ(IF signedNum(a) + signedNum(b) < 0 THEN -(signedNum(a) + signedNum(b))
         ELSE signedNum(a) + signedNum(b), 1)
mulMagnitude(a, b) == roundQ(fixNum(a) * fixNum(b), DoubleUnit)
divMagnitude(a, b) == roundQ(fixNum(a) * DoubleUnit, fixNum(b))

highestBit(v, w) == CHOOSE i \in 0..(w - 1) : v[i] /\ \A j \in (i + 1)..(w - 1) : ~v[j]
lowestBit(v, w) == CHOOSE i \in 0..(w - 1) : v[i] /\ \A j \in 0..(i - 1) : ~v[j]

\* ------------------------------------------------- the emitted code, run
\* m is the machine (registers, spill slots, flags, position in the code,
\* how it stopped, the fields of VM registers and the memory words the code
\* has written), env what the code finds outside the registers: heap (the
\* fields of objects, by address), vm (the value fields of VM registers and
\* constants), tt (their tag fields, when the run reads them), ret (what a
\* called function returns)
NoWrites == [x \in {} |-> Zero]

Machine(reg, slot, zf, cf, lt) ==
  [reg |-> reg, slot |-> slot, zf |-> zf, cf |-> cf, lt |-> lt,
   pc |-> 1, halt |-> "run", left |-> 0, calls |-> 0, undef |-> FALSE, fuel |-> 0,
   stack |-> NoWrites, mem |-> NoWrites]

\* the field arg of a VM register: what the code wrote there last, what the
\* VM left there otherwise
stackAt(m, env, arg) ==
  IF arg \in DOMAIN m.stack THEN m.stack[arg]
  ELSE IF arg.k = "vm" /\ arg.op \in DOMAIN env.vm THEN env.vm[arg.op]
  ELSE IF arg.k = "vmtag" /\ "tt" \in DOMAIN env /\ arg.op \in DOMAIN env.tt
  THEN env.tt[arg.op]
  ELSE Wild

heapAt(env, ptr, field) ==
  IF << ptr, field >> \in DOMAIN env.heap THEN env.heap[<< ptr, field >>] ELSE Wild

\* a memory word: the bits the code wrote last, over what was there before
memAt(m, env, ptr, field) ==
  IF << ptr, field >> \in DOMAIN m.mem
  THEN [i \in Bit |-> IF i < m.mem[<< ptr, field >>].w THEN m.mem[<< ptr, field >>].v[i]
                      ELSE heapAt(env, ptr, field)[i]]
  ELSE heapAt(env, ptr, field)

\* a write of the w low bits of v to the memory word key
memWrite(mem, key, v, w) ==
  IF key \in DOMAIN mem
  THEN [x \in DOMAIN mem |->
          IF x = key
          THEN [v |-> [i \in Bit |-> IF i < w THEN v[i] ELSE mem[key].v[i]],
                w |-> IF w > mem[key].w THEN w ELSE mem[key].w]
          ELSE mem[x]]
  ELSE (key :> [v |-> lowBits(v, w), w |-> w]) @@ mem

readArg(m, env, arg, w) ==
  CASE arg.k = "reg" -> lowBits(m.reg[arg.r], w)
    [] arg.k = "imm" -> lowBits(arg.v, w)
    [] arg.k = "slot" -> m.slot[arg.s]
    [] arg.k = "mem" ->
         lowBits(memAt(m, env, IF arg.base = 0 THEN Zero ELSE m.reg[arg.base], arg.field), w)
    [] arg.k \in {"vm", "vmtag"} -> lowBits(stackAt(m, env, arg), w)
    [] arg.k = "vmaddr" -> Word(1024 + 16 * arg.op.index)
    [] OTHER -> Zero

writeArg(m, arg, v, w) ==
  CASE arg.k = "reg" -> [m EXCEPT !.reg[arg.r] = writeReg(@, v, w)]
    [] arg.k = "slot" -> [m EXCEPT !.slot[arg.s] = v]
    [] arg.k \in {"vm", "vmtag"} -> [m EXCEPT !.stack = (arg :> lowBits(v, w)) @@ @]
    [] arg.k \in {"arg", "base"} -> m
    [] arg.k = "mem" /\ arg.base # 0 ->
         [m EXCEPT !.mem = memWrite(@, << m.reg[arg.base], arg.field >>, v, w)]
    [] OTHER -> [m EXCEPT !.undef = TRUE]

\* the flags an arithmetic result sets
withResult(m, arg, v, w) ==
  [writeArg(m, arg, v, w) EXCEPT !.zf = (v = Zero), !.cf = FALSE, !.lt = v[w - 1]]

CondHolds(cond, m) ==
  CASE cond \in {"Equal", "Zero"} -> m.zf
    [] cond \in {"NotEqual", "NotZero"} -> ~m.zf
    [] cond = "Less" -> m.lt
    [] cond = "NotLess" -> ~m.lt
    [] cond = "BelowEqual" -> m.cf \/ m.zf
    [] cond \in {"NotBelowEqual", "Above"} -> ~(m.cf \/ m.zf)
    [] cond = "AboveEqual" -> ~m.cf
    [] cond = "NotAboveEqual" -> m.cf
    [] OTHER -> FALSE

\* a branch taken: to the place the label is bound in the code, or out of it
jumpTo(code, m, label) ==
  IF \E k \in 1..Len(code) : code[k].op = "setLabel" /\ code[k].label = label
  THEN [m EXCEPT !.pc = CHOOSE k \in 1..Len(code) :
                            code[k].op = "setLabel" /\ code[k].label = label]
  ELSE [m EXCEPT !.halt = "left", !.left = label]

\* an operation on the doubles y and z.  Outside the finite doubles of the
\* model (an operand that is none, a result too large, a division by zero)
\* the run is not followed
writeDouble(m, dst, mag, v) ==
  IF mag > MaxMagnitude THEN [m EXCEPT !.undef = TRUE] ELSE writeArg(m, dst, v, 64)

computeDouble(m, ins, y, z) ==
  IF ~(isFinite(y) /\ isFinite(z)) THEN [m EXCEPT !.undef = TRUE]
  ELSE CASE ins.op = "vaddsd" -> writeDouble(m, ins.dst, sumMagnitude(y, z), fixAdd(y, z))
         [] ins.op = "vsubsd" ->
              writeDouble(m, ins.dst, sumMagnitude(y, fixNeg(z)), fixSub(y, z))
         [] ins.op = "vmulsd" -> writeDouble(m, ins.dst, mulMagnitude(y, z), fixMul(y, z))
         [] ins.op = "vdivsd" ->
              IF fixNum(z) = 0 THEN [m EXCEPT !.undef = TRUE]
              ELSE writeDouble(m, ins.dst, divMagnitude(y, z), fixDiv(y, z))
         [] ins.op = "vroundsd" /\ ins.src[3] = RoundToZero ->
              writeArg(m, ins.dst, fixTrunc(z), 64)
         [] ins.op = "vroundsd" /\ ins.src[3] = RoundToNegativeInfinity ->
              writeArg(m, ins.dst, fixFloor(z), 64)
         [] OTHER -> [m EXCEPT !.undef = TRUE]

\* an instruction with operands: x and y are its first two operands read
compute(m, env, ins, x, y) ==
  CASE ins.op \in {"mov", "spill", "reload"} \/ (ins.op = "vmovsd" /\ Len(ins.src) = 1) ->
         writeArg(m, ins.dst, y, ins.w)
    \* vmovsd dst, src1, src2: the low 64 bits are those of src2
    [] ins.op = "vmovsd" /\ Len(ins.src) = 2 ->
         writeArg(m, ins.dst, readArg(m, env, ins.src[2], ins.w), ins.w)
    [] ins.op \in {"vaddsd", "vsubsd", "vmulsd", "vdivsd", "vroundsd"} ->
         computeDouble(m, ins, y, readArg(m, env, ins.src[2], ins.w))
    [] ins.op = "vandpd" ->
         writeArg(m, ins.dst, bitAnd(y, readArg(m, env, ins.src[2], ins.w)), ins.w)
    [] ins.op = "vorpd" ->
         writeArg(m, ins.dst, bitOr(y, readArg(m, env, ins.src[2], ins.w)), ins.w)
    [] ins.op = "lea" /\ Len(ins.src) = 1 -> writeArg(m, ins.dst, y, ins.w)
    [] ins.op = "lea" ->
         writeArg(m, ins.dst, wordAdd(y, readArg(m, env, ins.src[2], ins.w), ins.w), ins.w)
    [] ins.op = "leaSub" ->
         writeArg(m, ins.dst, wordSub(y, readArg(m, env, ins.src[2], ins.w), ins.w), ins.w)
    [] ins.op = "add" -> withResult(m, ins.dst, wordAdd(x, y, ins.w), ins.w)
    [] ins.op = "sub" -> withResult(m, ins.dst, wordSub(x, y, ins.w), ins.w)
    [] ins.op = "inc" -> withResult(m, ins.dst, wordAdd(x, Word(1), ins.w), ins.w)
    [] ins.op = "dec" -> withResult(m, ins.dst, wordSub(x, Word(1), ins.w), ins.w)
    [] ins.op = "and" -> withResult(m, ins.dst, bitAnd(x, y), ins.w)
    [] ins.op = "or" -> withResult(m, ins.dst, bitOr(x, y), ins.w)
    [] ins.op = "xor" -> withResult(m, ins.dst, bitXor(x, y), ins.w)
    [] ins.op = "not" -> writeArg(m, ins.dst, bitNot(x, ins.w), ins.w)
    [] ins.op \in {"shl", "sal"} ->
         withResult(m, ins.dst, shiftLeft(x, shiftCount(y, ins.w), ins.w), ins.w)
    [] ins.op = "shr" ->
         withResult(m, ins.dst, shiftRight(x, shiftCount(y, ins.w), ins.w), ins.w)
    [] ins.op = "sar" ->
         withResult(m, ins.dst, shiftRightArith(x, shiftCount(y, ins.w), ins.w), ins.w)
    \* setcc sets a byte to 1 or 0; movzx takes a byte and clears the rest
    [] ins.op = "setcc" ->
         writeArg(m, ins.dst, IF CondHolds(ins.cond, m) THEN Word(1) ELSE Zero, 8)
    [] ins.op = "movzx" -> writeArg(m, ins.dst, lowBits(y, 8), ins.w)
    [] ins.op = "cmp" ->
         [m EXCEPT !.zf = (x = y), !.cf = below(x, y, ins.w), !.lt = less(x, y, ins.w)]
    [] ins.op = "test" ->
         [m EXCEPT !.zf = (bitAnd(x, y) = Zero), !.cf = FALSE,
                   !.lt = bitAnd(x, y)[ins.w - 1]]
    [] ins.op = "bsr" ->
         IF y = Zero THEN [m EXCEPT !.undef = TRUE, !.zf = TRUE]
         ELSE [writeArg(m, ins.dst, Word(highestBit(y, ins.w)), ins.w) EXCEPT !.zf = FALSE]
    [] ins.op = "bsf" ->
         IF y = Zero THEN [m EXCEPT !.undef = TRUE, !.zf = TRUE]
         ELSE [writeArg(m, ins.dst, Word(lowestBit(y, ins.w)), ins.w) EXCEPT !.zf = FALSE]
    [] ins.op = "call" ->
         [m EXCEPT !.reg = [r \in DOMAIN m.reg |-> IF r = rax THEN env.ret ELSE Wild],
                   !.calls = @ + 1]
    [] OTHER -> [m EXCEPT !.undef = TRUE]

\* one instruction.  An instruction without operands leaves the machine as
\* it is
stepIns(code, env, m, ins) ==
  CASE ins.op = "setLabel" -> [m EXCEPT !.pc = @ + 1]
    [] ins.op = "ud2" -> [m EXCEPT !.halt = "trap"]
    [] ins.op = "jmp" -> jumpTo(code, m, ins.label)
    [] ins.op = "jcc" ->
         IF CondHolds(ins.cond, m) THEN jumpTo(code, m, ins.label)
         ELSE [m EXCEPT !.pc = @ + 1]
    [] OTHER ->
         IF ~HasOperands(ins) THEN [m EXCEPT !.pc = @ + 1]
         ELSE [compute(m, env, ins,
                       readArg(m, env, ins.dst, ins.w),
                       IF Len(ins.src) > 0 THEN readArg(m, env, ins.src[1], ins.w) ELSE Zero)
                 EXCEPT !.pc = @ + 1]

\* the code run to its end, to a trap, or to a branch that leaves it
RECURSIVE runCode(_, _, _)
runCode(code, env, m) ==
  IF m.halt # "run" THEN m
  ELSE IF m.pc > Len(code) THEN [m EXCEPT !.halt = "end"]
  ELSE IF m.fuel >= 4 * Len(code) THEN [m EXCEPT !.halt = "loop"]
  ELSE runCode(code, env, stepIns(code, env, [m EXCEPT !.fuel = @ + 1], code[m.pc]))

\* -------------------------------------------------- register allocator
\* what a free register holds is of no concern to the lowering from here on
freeReg(cx, reg) ==
  [cx EXCEPT !.regs.free[reg] = TRUE, !.regs.users[reg] = kInvalidInstIdx,
             !.mach.reg[reg] = Junk]

claimReg(cx, reg, instIdx) ==
  [cx EXCEPT !.regs.free[reg] = FALSE, !.regs.users[reg] = instIdx]

findSpillStackSlot(cx) ==
  Min({s \in SpillArea : s \notin cx.regs.usedSpillSlots})

\* spill the value of instruction i: store its register to a free slot of
\* the spill area and release the register
preserveTo(cx, i, reg, slot) ==
  freeReg(Emit([cx EXCEPT
                  !.mach.slot[slot] = cx.mach.reg[reg],
                  !.regs.usedSpillSlots = @ \cup {slot},
                  !.regs.maxUsedSlot = IF slot + 1 > @ THEN slot + 1 ELSE @,
                  !.regs.spills = @ \cup
                     {[instIdx |-> i, stackSlot |-> slot, originalLoc |-> reg]},
                  !.inst[i].spilled = TRUE,
                  !.inst[i].regX64 = noreg,
                  !.obs.peakSpills = Max(@, Cardinality(cx.regs.usedSpillSlots \cup {slot}))],
               Asm("spill", 64, SlotArg(slot), <<RegArg(reg)>>)),
          reg)

preserve(cx, i) ==
  preserveTo(cx, i, cx.inst[i].regX64, findSpillStackSlot(cx))

takeReg(cx, reg, instIdx) ==
  IF cx.fault # "" THEN cx
  ELSE IF cx.regs.free[reg] THEN claimReg(cx, reg, instIdx)
  ELSE IF cx.regs.users[reg] = kInvalidInstIdx
       THEN Fault(cx, "takeReg: register held by a temporary")
  ELSE claimReg(preserve(cx, cx.regs.users[reg]), reg, instIdx)

\* values that may be evicted: not a temporary, not the value defined by
\* the current instruction, not an operand of the current instruction
SpillCandidates(cx, cls) ==
  {cx.regs.users[r] : r \in {q \in ClassRegs(cls) : ~cx.regs.free[q]}}
     \ ({kInvalidInstIdx, cx.regs.currInstIdx} \cup cx.curOps)

\* the value with the furthest next use among cand; the order of the next
\* uses is an input (cx.far names the furthest one)
furthestOf(cx, cand) ==
  IF cand = {} THEN kInvalidInstIdx
  ELSE IF cx.far \in cand THEN cx.far
  ELSE Min(cand)

findInstructionWithFurthestNextUse(cx, cls) ==
  furthestOf(cx, SpillCandidates(cx, cls))

allocRegFrom(cx, instIdx, free, victim) ==
  IF free # {} THEN R(claimReg(cx, Min(free), instIdx), Min(free))
  ELSE IF victim # kInvalidInstIdx
       THEN R(takeReg(cx, cx.inst[victim].regX64, instIdx), cx.inst[victim].regX64)
  ELSE R(Fault(cx, "Out of registers to allocate"), noreg)

allocReg(cx, cls, instIdx) ==
  IF cx.fault # "" THEN R(cx, noreg)
  ELSE allocRegFrom(cx, instIdx, {r \in ClassRegs(cls) : cx.regs.free[r]},
                    findInstructionWithFurthestNextUse(cx, cls))

\* the reload of spill into the register a.reg
restoreInto(a, i, spill) ==
  IF a.cx.fault # "" THEN a.cx
  ELSE Emit([a.cx EXCEPT
               !.mach.reg[a.reg] = a.cx.mach.slot[spill.stackSlot],
               !.mach.slot[spill.stackSlot] = Junk,
               !.regs.usedSpillSlots = @ \ {spill.stackSlot},
               !.regs.spills = @ \ {spill},
               !.inst[i].regX64 = a.reg,
               !.inst[i].spilled = FALSE,
               !.inst[i].needsReload = FALSE,
               !.inst[i].restores = @ + 1],
            Asm("reload", 64, RegArg(a.reg), <<SlotArg(spill.stackSlot)>>))

restoreSpill(cx, i, intoOriginalLocation, spill) ==
  restoreInto(IF intoOriginalLocation
              THEN R(takeReg(cx, spill.originalLoc, i), spill.originalLoc)
              ELSE allocReg(cx, RegClass(spill.originalLoc), i),
              i, spill)

\* reload the value of instruction i from its spill slot
restore(cx, i, intoOriginalLocation) ==
  IF cx.fault # "" \/ ~(\E s \in cx.regs.spills : s.instIdx = i) THEN cx
  ELSE restoreSpill(cx, i, intoOriginalLocation,
                    CHOOSE s \in cx.regs.spills : s.instIdx = i)

RECURSIVE preserveRegs(_, _)
preserveRegs(cx, regsLeft) ==
  IF regsLeft = {} THEN cx
  ELSE preserveRegs(
         IF ~cx.regs.free[Min(regsLeft)] /\ cx.regs.users[Min(regsLeft)] # kInvalidInstIdx
         THEN preserve(cx, cx.regs.users[Min(regsLeft)]) ELSE cx,
         regsLeft \ {Min(regsLeft)})

preserveAndFreeInstValues(cx) ==
  IF cx.fault # "" THEN cx ELSE preserveRegs(cx, Regs)

isLastUseReg(cx, target, instIdx) ==
  cx.inst[target].lastUse = instIdx /\ ~cx.inst[target].reusedReg

freeLastUseReg(cx, target, instIdx) ==
  IF cx.fault # "" \/ ~isLastUseReg(cx, target, instIdx) THEN cx
  ELSE IF cx.inst[target].spilled \/ cx.inst[target].needsReload
       THEN Fault(cx, "freeLastUseReg: value is spilled")
  ELSE IF cx.inst[target].regX64 = noreg THEN cx
  ELSE [freeReg(cx, cx.inst[target].regX64)
          EXCEPT !.inst[target].regX64 = noreg,
                 !.obs.frees = @ \cup {[value |-> target, reg |-> cx.inst[target].regX64,
                                        at |-> Len(cx.build.code)]}]

InstOperands(inst) ==
  {op.index : op \in {o \in {inst.a, inst.b, inst.c, inst.d, inst.e} : o.kind = "Inst"}}

RECURSIVE freeLastUseSet(_, _, _)
freeLastUseSet(cx, targets, instIdx) ==
  IF targets = {} THEN cx
  ELSE freeLastUseSet(freeLastUseReg(cx, Min(targets), instIdx),
                      targets \ {Min(targets)}, instIdx)

freeLastUseRegs(cx, inst, instIdx) ==
  freeLastUseSet(cx, InstOperands(inst), instIdx)

\* the candidate whose register allocRegOrReuse hands out, kInvalidInstIdx
\* when there is none: the first operand in oprefs that is an instruction
\* with its last use here, its register not reused, spilled or to be reloaded
RECURSIVE reuseCandidate(_, _, _)
reuseCandidate(cx, instIdx, oprefs) ==
  IF oprefs = << >> THEN kInvalidInstIdx
  ELSE IF /\ Head(oprefs).kind = "Inst"
          /\ cx.inst[Head(oprefs).index].lastUse = instIdx
          /\ ~cx.inst[Head(oprefs).index].reusedReg
          /\ ~cx.inst[Head(oprefs).index].spilled
          /\ ~cx.inst[Head(oprefs).index].needsReload
       THEN Head(oprefs).index
  ELSE reuseCandidate(cx, instIdx, Tail(oprefs))

\* the operands of the current instruction that live in a register of cls
OperandsIn(cx, cls) ==
  {j \in cx.curOps : cx.inst[j].regX64 # noreg /\ RegClass(cx.inst[j].regX64) = cls}

\* reuse that takes the register of an operand whatever its later uses
reuseNoLastUse(cx, cls, instIdx, source) ==
  IF OperandsIn(cx, cls) = {} THEN allocReg(cx, cls, instIdx)
  ELSE R([cx EXCEPT !.inst[Min(OperandsIn(cx, cls))].reusedReg = TRUE,
                    !.regs.users[cx.inst[Min(OperandsIn(cx, cls))].regX64] = instIdx],
         cx.inst[Min(OperandsIn(cx, cls))].regX64)

\* the register of the candidate source, which is marked reused and keeps
\* its register; a register of its own when there is no candidate or the
\* candidate lives in the other register class
reuse(cx, cls, instIdx, source) ==
  IF source = kInvalidInstIdx \/ RegClass(cx.inst[source].regX64) # cls
  THEN allocReg(cx, cls, instIdx)
  ELSE IF cx.inst[source].regX64 = noreg
  THEN R(Fault(cx, "allocRegOrReuse: source.regX64 != noreg"), noreg)
  ELSE R([cx EXCEPT !.inst[source].reusedReg = TRUE,
                    !.regs.users[cx.inst[source].regX64] = instIdx],
         cx.inst[source].regX64)

allocRegOrReuse(cx, cls, instIdx, oprefs) ==
  IF cx.fault # "" THEN R(cx, noreg)
  ELSE reuse(cx, cls, instIdx, reuseCandidate(cx, instIdx, oprefs))

\* ScopedRegX64 tmp{regs, size}: a temporary has no instruction as its user
allocTmp(cx, cls) ==
  With(allocReg(cx, cls, kInvalidInstIdx), LAMBDA a :
    IF a.cx.fault # "" THEN a
    ELSE R([a.cx EXCEPT !.mach.reg[a.reg] = Junk], a.reg))

freeTmp(cx, reg) ==
  IF cx.fault # "" THEN cx ELSE freeReg(cx, reg)

\* inst.regX64 assigned before the instruction's code is emitted
claimResult(cx, index, reg) ==
  IF cx.fault # "" THEN cx
  ELSE [cx EXCEPT !.inst[index].regX64 = reg, !.mach.reg[reg] = index]

\* the instruction's result: its register now holds the value of index
setResult(cx, index, reg) ==
  IF cx.fault # "" THEN cx
  ELSE [cx EXCEPT !.inst[index].regX64 = reg, !.mach.reg[reg] = index]

\* -------------------------------------------------------- operand resolver
\* regOp without its assertion: the caller gets the register of the value
\* even when it is noreg
regOpRestoredUnchecked(cx1, i, was) ==
  IF cx1.fault # "" THEN R(cx1, noreg)
  ELSE R([cx1 EXCEPT !.obs.reads = @ \cup
            {[value |-> i, reg |-> cx1.inst[i].regX64,
              got |-> IF cx1.inst[i].regX64 = noreg THEN Junk
                      ELSE cx1.mach.reg[cx1.inst[i].regX64],
              reloaded |-> was, restores |-> cx1.inst[i].restores]}],
         cx1.inst[i].regX64)

\* the register of value i once it is restored; was tells that it was
regOpRestored(cx1, i, was) ==
  IF cx1.fault # "" THEN R(cx1, noreg)
  ELSE IF cx1.inst[i].regX64 = noreg
       THEN R(Fault(cx1, "regOp: inst.regX64 != noreg"), noreg)
  ELSE R([cx1 EXCEPT !.obs.reads = @ \cup
            {[value |-> i, reg |-> cx1.inst[i].regX64,
              got |-> cx1.mach.reg[cx1.inst[i].regX64], reloaded |-> was,
              restores |-> cx1.inst[i].restores]}],
         cx1.inst[i].regX64)

\* regOp that hands out the register a spilled value used to live in
regOpStale(cx, op) ==
  IF cx.fault # "" THEN R(cx, noreg)
  ELSE IF cx.inst[op.index].spilled \/ cx.inst[op.index].needsReload
  THEN With((CHOOSE s \in cx.regs.spills : s.instIdx = op.index).originalLoc, LAMBDA was :
         R([cx EXCEPT !.obs.reads = @ \cup
              {[value |-> op.index, reg |-> was, got |-> cx.mach.reg[was],
                reloaded |-> FALSE,
                restores |-> cx.inst[op.index].restores]}],
           was))
  ELSE regOpRestored(cx, op.index, FALSE)

regOp(cx, op) ==
  IF cx.fault # "" THEN R(cx, noreg)
  ELSE regOpRestored(
         IF cx.inst[op.index].spilled \/ cx.inst[op.index].needsReload
         THEN restore(cx, op.index, FALSE) ELSE cx,
         op.index,
         cx.inst[op.index].spilled \/ cx.inst[op.index].needsReload)

memRegDoubleOp(cx, op) ==
  IF op.kind = "Inst" THEN regOp(cx, op)
  ELSE IF op.kind \in {"Constant", "VmReg", "VmConst"} THEN R(cx, noreg)
  ELSE R(Fault(cx, "Unsupported operand kind"), noreg)

memRegUintOp(cx, op) ==
  IF op.kind = "Inst" THEN regOp(cx, op)
  ELSE IF op.kind \in {"Constant", "VmReg"} THEN R(cx, noreg)
  ELSE R(Fault(cx, "Unsupported operand kind"), noreg)

\* memRegTagOp that takes a constant too
memRegTagOpWithConstant(cx, op) ==
  IF op.kind = "Inst" THEN regOp(cx, op)
  ELSE IF op.kind \in {"Constant", "VmReg", "VmConst"} THEN R(cx, noreg)
  ELSE R(Fault(cx, "Unsupported operand kind"), noreg)

memRegTagOp(cx, op) ==
  IF op.kind = "Inst" THEN regOp(cx, op)
  ELSE IF op.kind \in {"VmReg", "VmConst"} THEN R(cx, noreg)
  ELSE R(Fault(cx, "Unsupported operand kind"), noreg)

\* ------------------------------------------------------ control-flow linker
\* isFallthroughBlock that takes every block but the first for the next one
isFallthroughBlockAfterFirst(target, next) == BlockStart(target) > 1

isFallthroughBlock(target, next) == BlockStart(target) = BlockStart(next)

\* getTargetLabel that never consults exitHandlerMap
getTargetLabelNoLookup(cx, op) ==
  IF op.kind = "Undef" THEN 0
  ELSE IF op.kind = "VmExit"
       THEN IF vmExitOp(op) = kVmExitEntryGuardPc THEN exitContinueVmClearNativeFlag
            ELSE 0
  ELSE labelOp(op)

\* getTargetLabel that treats kVmExitEntryGuardPc like any other pc
getTargetLabelNoSentinel(cx, op) ==
  IF op.kind = "Undef" THEN 0
  ELSE IF op.kind = "VmExit"
       THEN IF vmExitOp(op) \in DOMAIN cx.exitHandlerMap
            THEN cx.exitHandlers[cx.exitHandlerMap[vmExitOp(op)] + 1].self
            ELSE 0
  ELSE labelOp(op)

\* the id of the label returned; 0 stands for the caller's fresh label
getTargetLabel(cx, op) ==
  IF op.kind = "Undef" THEN 0
  ELSE IF op.kind = "VmExit"
       THEN IF vmExitOp(op) = kVmExitEntryGuardPc THEN exitContinueVmClearNativeFlag
            ELSE IF vmExitOp(op) \in DOMAIN cx.exitHandlerMap
                 THEN cx.exitHandlers[cx.exitHandlerMap[vmExitOp(op)] + 1].self
            ELSE 0
  ELSE labelOp(op)

\* freshId is fresh.id when the caller is done with it
finalizeTargetLabel(cx, op, freshId) ==
  IF op.kind = "VmExit" /\ freshId # 0 /\ freshId # exitContinueVmClearNativeFlag
  THEN [cx EXCEPT
          !.exitHandlerMap = (vmExitOp(op) :> Len(cx.exitHandlers)) @@ @,
          !.exitHandlers = Append(@, [self |-> freshId, pcpos |-> vmExitOp(op)])]
  ELSE cx

\* build.jmp / build.jcc to a label: the branch, and the id a fresh label gets
Branch(cx, op, cond, label, target) ==
  BumpLabel(Emit(cx, Ins(op, cond, RefLabel(cx, label), target)), label)

\* jumpOrFallthrough that jumps to the next block too
jumpOrFallthroughAlways(cx, target, next) ==
  IF cx.fault # "" THEN cx
  ELSE Branch(cx, "jmp", "Count", BlockLabel(target), Op("Block", target))

jumpOrFallthrough(cx, target, next) ==
  IF cx.fault # "" THEN cx
  ELSE IF ~isFallthroughBlock(target, next)
       THEN Branch(cx, "jmp", "Count", BlockLabel(target), Op("Block", target))
  ELSE cx

\* emitJumpOrAbort that branches over the trap on the condition itself
emitJumpOrAbortSameCond(cx, cond, target, next, label) ==
  IF target.kind = "Undef"
  THEN IF cond = "Count" THEN Emit(cx, Plain("ud2"))
       ELSE Emit(Emit(Branch(cx, "jcc", cond, label, target), Plain("ud2")),
                 Ins("setLabel", "", RefLabel(cx, label), NoneOp))
  ELSE IF cond = "Count"
       THEN IF target.kind = "VmExit" \/ ~isFallthroughBlock(blockOp(target), next)
            THEN Branch(cx, "jmp", "Count", label, target)
            ELSE cx
  ELSE Branch(cx, "jcc", cond, label, target)

\* the instructions jumpOrAbortOnUndef emits for the label getTargetLabel gave
emitJumpOrAbort(cx, cond, target, next, label) ==
  IF target.kind = "Undef"
  THEN IF cond = "Count" THEN Emit(cx, Plain("ud2"))
       ELSE Emit(Emit(Branch(cx, "jcc", getReverseCondition(cond), label, target),
                      Plain("ud2")),
                 Ins("setLabel", "", RefLabel(cx, label), NoneOp))
  ELSE IF cond = "Count"
       THEN IF target.kind = "VmExit" \/ ~isFallthroughBlock(blockOp(target), next)
            THEN Branch(cx, "jmp", "Count", label, target)
            ELSE cx
  ELSE Branch(cx, "jcc", cond, label, target)

\* fresh.id after emitJumpOrAbort: set when an instruction referenced fresh
freshIdAfter(cx, cond, target, next, label) ==
  IF label = 0
     /\ (\/ cond # "Count"
         \/ target.kind = "VmExit"
         \/ (target.kind = "Block" /\ ~isFallthroughBlock(blockOp(target), next)))
  THEN RefLabel(cx, label)
  ELSE 0

jumpOrAbortOnUndef(cx, cond, target, next) ==
  IF cx.fault # "" THEN cx
  ELSE IF target.kind \notin {"Undef", "VmExit", "Block"}
       THEN Fault(cx, "blockOp: operand is not a block")
  ELSE finalizeTargetLabel(
         emitJumpOrAbort(cx, cond, target, next, getTargetLabel(cx, target)),
         target,
         freshIdAfter(cx, cond, target, next, getTargetLabel(cx, target)))

\* EmitCommonX64 jumpOnNumberCmp: a compare and a branch to label when the
\* comparison holds
jumpOnNumberCmp(cx, cond, label, target) ==
  IF cx.fault # "" THEN cx
  ELSE Branch(Emit(cx, Plain("vucomisd")), "jcc", cond, label, target)

\* ------------------------------------------------- lowerInst, per opcode
LOAD_INT(cx, inst, index, next) ==
  With(allocReg(cx, "gpr", index), LAMBDA a :
    setResult(Emit(a.cx, Plain("mov")), index, a.reg))

LOAD_POINTER(cx, inst, index, next) ==
  With(allocReg(cx, "gpr", index), LAMBDA a :
    IF inst.a.kind = "Inst"
    THEN setResult(Emit(regOp(a.cx, inst.a).cx, Plain("mov")), index, a.reg)
    ELSE IF inst.a.kind \in {"VmReg", "VmConst"}
    THEN setResult(Emit(a.cx, Plain("mov")), index, a.reg)
    ELSE Fault(a.cx, "Unsupported instruction form"))

\* STRING_LEN that computes the length in the register of its operand
STRING_LEN_InPlace(cx, inst, index, next) ==
  With(regOp(cx, inst.a), LAMBDA ra :
    setResult(Emit(ra.cx, Plain("mov")), index, ra.reg))

STRING_LEN(cx, inst, index, next) ==
  With(allocReg(regOp(cx, inst.a).cx, "gpr", index), LAMBDA a :
    setResult(Emit(a.cx, Plain("mov")), index, a.reg))

\* the shift once ecx is taken and the result register a.reg is allocated
shiftInto(a, inst, index) ==
  With(Emit(memRegUintOp(a.cx, inst.b).cx, Plain("mov")), LAMBDA c3 :
    IF inst.a.kind # "Inst"
    THEN setResult(Emit(Emit(memRegUintOp(c3, inst.a).cx, Plain("mov")), Plain("shl")),
                   index, a.reg)
    ELSE With(regOp(c3, inst.a), LAMBDA ra :
           IF a.reg # ra.reg
           THEN setResult(Emit(Emit(memRegUintOp(ra.cx, inst.a).cx, Plain("mov")),
                               Plain("shl")),
                          index, a.reg)
           ELSE setResult(Emit(ra.cx, Plain("shl")), index, a.reg)))

\* the same with the shift count's register kept
BITLSHIFT_UINT_KeepCount(cx, inst, index, next) ==
  With(takeReg(cx, rcx, kInvalidInstIdx), LAMBDA c1 :
    IF c1.fault # "" THEN c1
    ELSE shiftInto(allocReg([c1 EXCEPT !.mach.reg[rcx] = Junk], "gpr", index),
                   inst, index))

BITLSHIFT_UINT(cx, inst, index, next) ==
  With(takeReg(cx, rcx, kInvalidInstIdx), LAMBDA c1 :
    IF c1.fault # "" THEN c1
    ELSE freeTmp(shiftInto(allocReg([c1 EXCEPT !.mach.reg[rcx] = Junk], "gpr", index),
                           inst, index),
                 rcx))

JUMP(cx, inst, index, next) ==
  jumpOrAbortOnUndef(cx, "Count", inst.a, next)

\* the branch on cond to the operand taken, then the jump to the other
\* target unless it is the next block
branchThenFallthrough(cx, cond, taken, other, next) ==
  IF cx.fault # "" THEN cx
  ELSE jumpOrFallthrough(Branch(cx, "jcc", cond, labelOp(taken), taken),
                         blockOp(other), next)

\* JUMP_EQ_TAG that always branches on equality
JUMP_EQ_TAG_OnEqual(cx, inst, index, next) ==
  IF inst.b.kind \notin {"Inst", "Constant"}
  THEN Fault(cx, "inst.b.kind == IrOpKind::Inst || inst.b.kind == IrOpKind::Constant")
  ELSE branchThenFallthrough(
         Emit((IF inst.a.kind = "Constant"
               THEN (IF inst.b.kind = "Inst" THEN regOp(cx, inst.b) ELSE R(cx, noreg))
               ELSE memRegTagOp(
                      (IF inst.b.kind = "Inst" THEN regOp(cx, inst.b) ELSE R(cx, noreg)).cx,
                      inst.a)).cx,
              Plain("cmp")),
         "Equal", inst.c, inst.d, next)

JUMP_EQ_TAG(cx, inst, index, next) ==
  IF inst.b.kind \notin {"Inst", "Constant"}
  THEN Fault(cx, "inst.b.kind == IrOpKind::Inst || inst.b.kind == IrOpKind::Constant")
  ELSE With(Emit((IF inst.a.kind = "Constant"
                  THEN (IF inst.b.kind = "Inst" THEN regOp(cx, inst.b) ELSE R(cx, noreg))
                  ELSE memRegTagOp(
                         (IF inst.b.kind = "Inst" THEN regOp(cx, inst.b) ELSE R(cx, noreg)).cx,
                         inst.a)).cx,
                 Plain("cmp")),
            LAMBDA c1 :
              IF isFallthroughBlock(blockOp(inst.d), next)
              THEN branchThenFallthrough(c1, "Equal", inst.c, inst.d, next)
              ELSE branchThenFallthrough(c1, "NotEqual", inst.d, inst.c, next))

JUMP_EQ_INT(cx, inst, index, next) ==
  IF intOp(inst.b) = 0
  THEN With(Emit(regOp(regOp(cx, inst.a).cx, inst.a).cx, Plain("test")), LAMBDA c1 :
         IF isFallthroughBlock(blockOp(inst.c), next)
         THEN branchThenFallthrough(c1, "NotZero", inst.d, inst.c, next)
         ELSE branchThenFallthrough(c1, "Zero", inst.c, inst.d, next))
  ELSE branchThenFallthrough(Emit(regOp(cx, inst.a).cx, Plain("cmp")),
                             "Equal", inst.c, inst.d, next)

JUMP_LT_INT(cx, inst, index, next) ==
  branchThenFallthrough(Emit(regOp(cx, inst.a).cx, Plain("cmp")),
                        "Less", inst.c, inst.d, next)

JUMP_GE_UINT(cx, inst, index, next) ==
  branchThenFallthrough(Emit(regOp(cx, inst.a).cx, Plain("cmp")),
                        "AboveEqual", inst.c, inst.d, next)

JUMP_EQ_POINTER(cx, inst, index, next) ==
  branchThenFallthrough(Emit(regOp(regOp(cx, inst.a).cx, inst.b).cx, Plain("cmp")),
                        "Equal", inst.c, inst.d, next)

\* conditionOp(inst.c) is the condition, inst.d the target taken when it
\* holds, inst.e the other target
JUMP_CMP_NUM(cx, inst, index, next) ==
  With(allocTmp(cx, "xmm"), LAMBDA tmp :
    freeTmp(jumpOrFallthrough(
              jumpOnNumberCmp(
                memRegDoubleOp(memRegDoubleOp(tmp.cx, inst.a).cx, inst.b).cx,
                inst.c.index, labelOp(inst.d), inst.d),
              blockOp(inst.e), next),
            tmp.reg))

CHECK_TAG(cx, inst, index, next) ==
  jumpOrAbortOnUndef(Emit(memRegTagOp(cx, inst.a).cx, Plain("cmp")),
                     "NotEqual", inst.c, next)

CHECK_SAFE_ENV(cx, inst, index, next) ==
  With(allocTmp(cx, "gpr"), LAMBDA tmp :
    freeTmp(jumpOrAbortOnUndef(
              Emit(Emit(Emit(tmp.cx, Plain("mov")), Plain("mov")), Plain("cmp")),
              "Equal", inst.a, next),
            tmp.reg))

\* lua_Type
LUA_TNIL == 0
LUA_TBOOLEAN == 1

\* the 32-bit word of a signed constant
WordOfInt(n) == IF n >= 0 THEN Word(n) ELSE bitNot(Word(-n - 1), 32)

\* the operand an instruction gets for the IR operand op: the register reg
\* of a value, an immediate, or the memory of a VM register or constant
argOf(op, reg) ==
  IF op.kind = "Inst" THEN RegArg(reg)
  ELSE IF op.kind = "Constant" THEN ImmArg(WordOfInt(intOp(op)))
  ELSE VmArg(op)

\* build.setLabel(label): a label nothing referenced gets its id here
Bind(cx, label) ==
  BumpLabel(Emit(cx, Ins("setLabel", "", RefLabel(cx, label), NoneOp)), label)

LOAD_TAG(cx, inst, index, next) ==
  With(allocReg(cx, "gpr", index), LAMBDA a :
    IF inst.a.kind \in {"VmReg", "VmConst"}
    THEN setResult(Emit(a.cx, Asm("mov", 32, RegArg(a.reg), << luauRegTag(inst.a) >>)),
                   index, a.reg)
    ELSE IF inst.a.kind = "Inst"
    THEN With(regOp(a.cx, inst.a), LAMBDA ra :
           setResult(Emit(ra.cx, Asm("mov", 32, RegArg(a.reg), << MemArg(ra.reg, "tt") >>)),
                     index, a.reg))
    ELSE Fault(a.cx, "Unsupported instruction form"))

LOAD_DOUBLE(cx, inst, index, next) ==
  With(allocReg(cx, "xmm", index), LAMBDA a :
    IF inst.a.kind \in {"VmReg", "VmConst"}
    THEN setResult(Emit(a.cx, Asm("vmovsd", 64, RegArg(a.reg), << VmArg(inst.a) >>)),
                   index, a.reg)
    ELSE Fault(a.cx, "Unsupported instruction form"))

\* ADD_INT once the result register res.reg is allocated
addInto(res, inst, index) ==
  IF inst.a.kind = "Constant"
  THEN With(regOp(res.cx, inst.b), LAMBDA rb :
         Emit(rb.cx, Asm("lea", 32, RegArg(res.reg),
                         << RegArg(rb.reg), ImmArg(WordOfInt(intOp(inst.a))) >>)))
  ELSE IF inst.a.kind = "Inst"
  THEN With(regOp(res.cx, inst.a), LAMBDA ra :
         IF res.reg = ra.reg
         THEN IF inst.b.kind = "Inst"
              THEN With(regOp(ra.cx, inst.b), LAMBDA rb :
                     Emit(rb.cx, Asm("add", 32, RegArg(res.reg), << RegArg(rb.reg) >>)))
              ELSE IF intOp(inst.b) = 1
              THEN Emit(ra.cx, Asm("inc", 32, RegArg(res.reg), << >>))
              ELSE Emit(ra.cx, Asm("add", 32, RegArg(res.reg),
                                   << ImmArg(WordOfInt(intOp(inst.b))) >>))
         ELSE IF inst.b.kind = "Inst"
              THEN With(regOp(regOp(ra.cx, inst.a).cx, inst.b), LAMBDA rb :
                     Emit(rb.cx, Asm("lea", 32, RegArg(res.reg),
                                     << RegArg(ra.reg), RegArg(rb.reg) >>)))
              ELSE Emit(regOp(ra.cx, inst.a).cx,
                        Asm("lea", 32, RegArg(res.reg),
                            << RegArg(ra.reg), ImmArg(WordOfInt(intOp(inst.b))) >>)))
  ELSE Fault(res.cx, "Unsupported instruction form")

ADD_INT(cx, inst, index, next) ==
  With(allocRegOrReuse(cx, "gpr", index, << inst.a >>), LAMBDA res :
    setResult(addInto(res, inst, index), index, res.reg))

\* SUB_INT once the result register res.reg is allocated
subFrom(res, inst, index) ==
  With(regOp(res.cx, inst.a), LAMBDA ra :
    IF res.reg = ra.reg /\ intOp(inst.b) = 1
    THEN Emit(ra.cx, Asm("dec", 32, RegArg(res.reg), << >>))
    ELSE IF res.reg = ra.reg
    THEN Emit(regOp(ra.cx, inst.a).cx,
              Asm("sub", 32, RegArg(res.reg), << ImmArg(WordOfInt(intOp(inst.b))) >>))
    ELSE Emit(regOp(regOp(ra.cx, inst.a).cx, inst.a).cx,
              Asm("leaSub", 32, RegArg(res.reg),
                  << RegArg(ra.reg), ImmArg(WordOfInt(intOp(inst.b))) >>)))

SUB_INT(cx, inst, index, next) ==
  With(allocRegOrReuse(cx, "gpr", index, << inst.a >>), LAMBDA res :
    setResult(subFrom(res, inst, index), index, res.reg))

\* BITAND_UINT once the result register res.reg is allocated: the move of a
\* unless the result register holds it, then the and with b
andInto(res, inst, index) ==
  With(IF inst.a.kind = "Inst" THEN regOp(res.cx, inst.a) ELSE R(res.cx, noreg),
       LAMBDA ra :
         With(IF inst.a.kind # "Inst" \/ res.reg # ra.reg
              THEN With(memRegUintOp(ra.cx, inst.a), LAMBDA ma :
                     Emit(ma.cx, Asm("mov", 32, RegArg(res.reg),
                                     << argOf(inst.a, ma.reg) >>)))
              ELSE ra.cx,
              LAMBDA c1 :
                With(memRegUintOp(c1, inst.b), LAMBDA mb :
                  Emit(mb.cx, Asm("and", 32, RegArg(res.reg),
                                  << argOf(inst.b, mb.reg) >>)))))

BITAND_UINT(cx, inst, index, next) ==
  With(allocRegOrReuse(cx, "gpr", index, << inst.a >>), LAMBDA res :
    setResult(andInto(res, inst, index), index, res.reg))

\* the local labels of NOT_ANY with the context: the ids of saveone and
\* savezero, 0 while nothing has referenced them
L3(cx, one, zero) == [cx |-> cx, one |-> one, zero |-> zero]

\* the operand an instruction gets for the double op: the register reg of a
\* value, the constant in the code's data, or the memory of a VM register
\* or constant
doubleOp(op) == op.index
argOfDouble(op, reg) ==
  IF op.kind = "Inst" THEN RegArg(reg)
  ELSE IF op.kind = "Constant" THEN ImmArg(Fix(doubleOp(op)))
  ELSE VmArg(op)

\* ADD_NUM once the result register res.reg is allocated
addNum(res, inst) ==
  IF inst.a.kind = "Constant"
  THEN With(allocTmp(res.cx, "xmm"), LAMBDA tmp :
         IF tmp.cx.fault # "" THEN tmp.cx
         ELSE With(memRegDoubleOp(
                     Emit(memRegDoubleOp(tmp.cx, inst.a).cx,
                          Asm("vmovsd", 64, RegArg(tmp.reg), << argOfDouble(inst.a, noreg) >>)),
                     inst.b),
                   LAMBDA mb :
                     freeTmp(Emit(mb.cx, Asm("vaddsd", 64, RegArg(res.reg),
                                             << RegArg(tmp.reg), argOfDouble(inst.b, mb.reg) >>)),
                             tmp.reg)))
  ELSE With(regOp(res.cx, inst.a), LAMBDA ra :
         With(memRegDoubleOp(ra.cx, inst.b), LAMBDA mb :
           Emit(mb.cx, Asm("vaddsd", 64, RegArg(res.reg),
                           << RegArg(ra.reg), argOfDouble(inst.b, mb.reg) >>))))

ADD_NUM(cx, inst, index, next) ==
  With(allocRegOrReuse(cx, "xmm", index, << inst.a, inst.b >>), LAMBDA res :
    setResult(addNum(res, inst), index, res.reg))

\* STORE_DOUBLE of a value that writes the tag field of the VM register
STORE_DOUBLE_ToTag(cx, inst, index, next) ==
  IF inst.a.kind # "VmReg" THEN Fault(cx, "vmRegOp: operand is not a VM register")
  ELSE IF inst.b.kind = "Inst"
  THEN With(regOp(cx, inst.b), LAMBDA rb :
         Emit(rb.cx, Asm("vmovsd", 64, luauRegTag(inst.a), << RegArg(rb.reg) >>)))
  ELSE Fault(cx, "Unsupported instruction form")

\* vmRegOp asserts the operand is a VM register
STORE_DOUBLE(cx, inst, index, next) ==
  IF inst.a.kind # "VmReg" THEN Fault(cx, "vmRegOp: operand is not a VM register")
  ELSE IF inst.b.kind = "Constant"
  THEN With(allocTmp(cx, "xmm"), LAMBDA tmp :
         IF tmp.cx.fault # "" THEN tmp.cx
         ELSE freeTmp(Emit(Emit(tmp.cx,
                Asm("vmovsd", 64, RegArg(tmp.reg), << argOfDouble(inst.b, noreg) >>)),
                Asm("vmovsd", 64, VmArg(inst.a), << RegArg(tmp.reg) >>)),
                tmp.reg))
  ELSE IF inst.b.kind = "Inst"
  THEN With(regOp(cx, inst.b), LAMBDA rb :
         Emit(rb.cx, Asm("vmovsd", 64, VmArg(inst.a), << RegArg(rb.reg) >>)))
  ELSE Fault(cx, "Unsupported instruction form")

\* ROUND_NUM that adds one half with the sign of the operand
roundNumPlusHalf(cx, inst, result, t1, t2) ==
  Emit(Emit(Emit(Emit(Emit(cx,
    Asm("vandpd", 64, RegArg(t1), << RegArg(result), ImmArg(BitAt(63)) >>)),
    Asm("vmovsd", 64, RegArg(t2), << ImmArg(Dbl(FALSE, DoubleUnit \div 2)) >>)),
    Asm("vorpd", 64, RegArg(t1), << RegArg(t1), RegArg(t2) >>)),
    Asm("vaddsd", 64, RegArg(result), << RegArg(result), RegArg(t1) >>)),
    Asm("vroundsd", 64, RegArg(result), << RegArg(result), RegArg(result), RoundToZero >>))

\* ROUND_NUM once the operand is in the result register: the sign of the
\* operand (vandpd with -0.0) joined to the largest double below one half
\* (vorpd) is added, and the sum is rounded towards zero
roundNum(cx, inst, result, t1, t2) ==
  Emit(Emit(Emit(Emit(Emit(cx,
    Asm("vandpd", 64, RegArg(t1), << RegArg(result), ImmArg(BitAt(63)) >>)),
    Asm("vmovsd", 64, RegArg(t2), << ImmArg(Dbl(FALSE, halfBelow)) >>)),
    Asm("vorpd", 64, RegArg(t1), << RegArg(t1), RegArg(t2) >>)),
    Asm("vaddsd", 64, RegArg(result), << RegArg(result), RegArg(t1) >>)),
    Asm("vroundsd", 64, RegArg(result), << RegArg(result), RegArg(result), RoundToZero >>))

\* the operand of ROUND_NUM moved to the result register unless it is there
roundOperand(cx, inst, result) ==
  IF inst.a.kind # "Inst"
  THEN With(memRegDoubleOp(cx, inst.a), LAMBDA ma :
         Emit(ma.cx, Asm("vmovsd", 64, RegArg(result), << argOfDouble(inst.a, ma.reg) >>)))
  ELSE With(regOp(cx, inst.a), LAMBDA ra :
         IF ra.reg # result
         THEN With(regOp(ra.cx, inst.a), LAMBDA rb :
                Emit(rb.cx, Asm("vmovsd", 64, RegArg(result),
                                << RegArg(result), RegArg(rb.reg) >>)))
         ELSE ra.cx)

ROUND_NUM(cx, inst, index, next) ==
  With(allocRegOrReuse(cx, "xmm", index, << inst.a >>), LAMBDA res :
    With(allocTmp(res.cx, "xmm"), LAMBDA tmp1 :
      With(allocTmp(tmp1.cx, "xmm"), LAMBDA tmp2 :
        IF tmp2.cx.fault # "" THEN tmp2.cx
        ELSE setResult(
               freeTmp(freeTmp(roundNum(roundOperand(tmp2.cx, inst, res.reg),
                                        inst, res.reg, tmp1.reg, tmp2.reg),
                               tmp2.reg),
                       tmp1.reg),
               index, res.reg))))

\* the left operand of MOD_NUM: a constant is moved to the register
\* optLhsTmp, a value is in its own
modLhs(cx, inst) ==
  IF inst.a.kind = "Constant"
  THEN With(allocTmp(cx, "xmm"), LAMBDA tmp :
         IF tmp.cx.fault # "" THEN tmp
         ELSE R(Emit(memRegDoubleOp(tmp.cx, inst.a).cx,
                     Asm("vmovsd", 64, RegArg(tmp.reg), << argOfDouble(inst.a, noreg) >>)),
                tmp.reg))
  ELSE regOp(cx, inst.a)

\* a - floor(a / b) * b with b a value, in the temporary t
modByValue(cx, inst, result, lhs, t) ==
  With(memRegDoubleOp(cx, inst.b), LAMBDA mb :
    With(memRegDoubleOp(
           Emit(Emit(mb.cx, Asm("vdivsd", 64, RegArg(t), << RegArg(lhs), RegArg(mb.reg) >>)),
                Asm("vroundsd", 64, RegArg(t), << RegArg(t), RegArg(t), RoundToNegativeInfinity >>)),
           inst.b),
         LAMBDA mc :
           Emit(Emit(mc.cx, Asm("vmulsd", 64, RegArg(t), << RegArg(t), RegArg(mc.reg) >>)),
                Asm("vsubsd", 64, RegArg(result), << RegArg(lhs), RegArg(t) >>))))

\* a - floor(a / b) * b with b moved to the temporary t1, in t1 and t2
modByOperand(cx, inst, result, lhs, t1, t2) ==
  With(memRegDoubleOp(cx, inst.b), LAMBDA mb :
    Emit(Emit(Emit(Emit(Emit(mb.cx,
      Asm("vmovsd", 64, RegArg(t1), << argOfDouble(inst.b, mb.reg) >>)),
      Asm("vdivsd", 64, RegArg(t2), << RegArg(lhs), RegArg(t1) >>)),
      Asm("vroundsd", 64, RegArg(t2), << RegArg(t2), RegArg(t2), RoundToNegativeInfinity >>)),
      Asm("vmulsd", 64, RegArg(t1), << RegArg(t2), RegArg(t1) >>)),
      Asm("vsubsd", 64, RegArg(result), << RegArg(lhs), RegArg(t1) >>)))

\* MOD_NUM once the result register and the left operand are there
modNum(l, inst, result) ==
  IF l.cx.fault # "" THEN l.cx
  ELSE IF inst.b.kind = "Inst"
  THEN With(allocTmp(l.cx, "xmm"), LAMBDA tmp :
         IF tmp.cx.fault # "" THEN tmp.cx
         ELSE freeTmp(modByValue(tmp.cx, inst, result, l.reg, tmp.reg), tmp.reg))
  ELSE With(allocTmp(l.cx, "xmm"), LAMBDA tmp1 :
         With(allocTmp(tmp1.cx, "xmm"), LAMBDA tmp2 :
           IF tmp2.cx.fault # "" THEN tmp2.cx
           ELSE freeTmp(freeTmp(modByOperand(tmp2.cx, inst, result, l.reg,
                                             tmp1.reg, tmp2.reg),
                                tmp2.reg),
                        tmp1.reg)))

MOD_NUM(cx, inst, index, next) ==
  With(allocRegOrReuse(cx, "xmm", index, << inst.a, inst.b >>), LAMBDA res :
    With(modLhs(res.cx, inst), LAMBDA l :
      setResult(IF inst.a.kind = "Constant"
                THEN freeTmp(modNum(l, inst, res.reg), l.reg)
                ELSE modNum(l, inst, res.reg),
                index, res.reg)))

\* log2 of the size of a LuaNode
kLuaNodeSizeLog2 == 5

\* the code of GET_HASH_NODE_ADDR with the mask t scaled in 32 bits
hashNodeNarrow(cx, inst, result, t) ==
  With(regOp(cx, inst.a), LAMBDA ra :
    With(regOp(Emit(Emit(ra.cx, Asm("mov", 64, RegArg(result), << MemArg(ra.reg, "node") >>)),
                    Asm("mov", 32, RegArg(t), << ImmArg(Word(1)) >>)),
               inst.a),
         LAMBDA rb :
           Emit(Emit(Emit(Emit(Emit(Emit(rb.cx,
             Asm("mov", 8, RegArg(rcx), << MemArg(rb.reg, "lsizenode") >>)),
             Asm("shl", 32, RegArg(t), << RegArg(rcx) >>)),
             Asm("dec", 32, RegArg(t), << >>)),
             Asm("and", 32, RegArg(t), << ImmArg(WordOfInt(uintOp(inst.b))) >>)),
             Asm("shl", 32, RegArg(t), << ImmArg(Word(kLuaNodeSizeLog2)) >>)),
             Asm("add", 64, RegArg(result), << RegArg(t) >>))))

\* the code of GET_HASH_NODE_ADDR once rcx is taken and the registers
\* result and t (tmp) are allocated
hashNode(cx, inst, result, t) ==
  With(regOp(cx, inst.a), LAMBDA ra :
    With(regOp(Emit(Emit(ra.cx, Asm("mov", 64, RegArg(result), << MemArg(ra.reg, "node") >>)),
                    Asm("mov", 32, RegArg(t), << ImmArg(Word(1)) >>)),
               inst.a),
         LAMBDA rb :
           Emit(Emit(Emit(Emit(Emit(Emit(rb.cx,
             Asm("mov", 8, RegArg(rcx), << MemArg(rb.reg, "lsizenode") >>)),
             Asm("shl", 32, RegArg(t), << RegArg(rcx) >>)),
             Asm("dec", 32, RegArg(t), << >>)),
             Asm("and", 32, RegArg(t), << ImmArg(WordOfInt(uintOp(inst.b))) >>)),
             Asm("shl", 64, RegArg(t), << ImmArg(Word(kLuaNodeSizeLog2)) >>)),
             Asm("add", 64, RegArg(result), << RegArg(t) >>))))

GET_HASH_NODE_ADDR(cx, inst, index, next) ==
  With(takeReg(cx, rcx, kInvalidInstIdx), LAMBDA c1 :
    IF c1.fault # "" THEN c1
    ELSE With(allocReg([c1 EXCEPT !.mach.reg[rcx] = Junk], "gpr", index), LAMBDA res :
           With(allocTmp(claimResult(res.cx, index, res.reg), "gpr"), LAMBDA tmp :
             IF tmp.cx.fault # "" THEN tmp.cx
             ELSE IF inst.b.kind # "Constant"
             THEN Fault(tmp.cx, "uintOp: operand is not a constant")
             ELSE freeTmp(freeTmp(hashNode(tmp.cx, inst, res.reg, tmp.reg), tmp.reg), rcx))))

\* ScopedSpills at the end of its scope: every value spilled since before
\* is restored into the register it was spilled from
RECURSIVE restoreScope(_, _)
restoreScope(cx, before) ==
  IF cx.fault # "" \/ cx.regs.spills \subseteq before THEN cx
  ELSE restoreScope(restore(cx, Min({sp.instIdx : sp \in cx.regs.spills \ before}), TRUE),
                    before)

\* test tmp, tmp; jz c (no metatable); test byte [tmp + tmcache], 1 << b;
\* jnz c (no tag method)
gettmTests(cx, inst, t) ==
  Branch(Emit(Branch(Emit(cx, Asm("test", 64, RegArg(t), << RegArg(t) >>)),
                     "jcc", "Zero", labelOp(inst.c), inst.c),
              Asm("test", 8, MemArg(t, "tmcache"), << ImmArg(Word(2 ^ intOp(inst.b))) >>)),
         "jcc", "NotZero", labelOp(inst.c), inst.c)

\* the call of luaT_gettm under ScopedSpills: the call wrapper moves the
\* three arguments, releases tmp and tmp2, spills the live values and calls
callGettm(cx, t, t2) ==
  restoreScope(
    Emit(preserveAndFreeInstValues(
           freeTmp(freeTmp(Emit(Emit(Emit(cx, Plain("mov")), Plain("mov")), Plain("mov")),
                           t),
                   t2)),
         Asm("call", 64, RegArg(rax), << >>)),
    cx.regs.spills)

\* test rax, rax; jz c (no tag method); the result is in rax
gettmResult(cx, inst, index) ==
  IF cx.fault # "" THEN cx
  ELSE setResult(takeReg(Branch(Emit(cx, Asm("test", 64, RegArg(rax), << RegArg(rax) >>)),
                                "jcc", "Zero", labelOp(inst.c), inst.c),
                         rax, index),
                 index, rax)

\* TRY_CALL_FASTGETTM that releases the table's register before the load of
\* the metatable is emitted
TRY_CALL_FASTGETTM_FreeFirst(cx, inst, index, next) ==
  IF inst.c.kind # "Block" THEN Fault(cx, "blockOp: operand is not a block")
  ELSE With(allocTmp(cx, "gpr"), LAMBDA tmp :
    IF tmp.cx.fault # "" THEN tmp.cx
    ELSE With(regOp(tmp.cx, inst.a), LAMBDA ra :
           With(allocTmp(
                  gettmTests(
                    Emit(freeLastUseReg(ra.cx, inst.a.index, index),
                         Asm("mov", 64, RegArg(tmp.reg), << MemArg(ra.reg, "metatable") >>)),
                    inst, tmp.reg),
                  "gpr"),
                LAMBDA tmp2 :
                  IF tmp2.cx.fault # "" THEN tmp2.cx
                  ELSE gettmResult(
                         callGettm(Emit(tmp2.cx, Asm("mov", 64, RegArg(tmp2.reg),
                                                     << MemArg(0, "global") >>)),
                                   tmp.reg, tmp2.reg),
                         inst, index))))

TRY_CALL_FASTGETTM(cx, inst, index, next) ==
  IF inst.c.kind # "Block" THEN Fault(cx, "blockOp: operand is not a block")
  ELSE With(allocTmp(cx, "gpr"), LAMBDA tmp :
    IF tmp.cx.fault # "" THEN tmp.cx
    ELSE With(regOp(tmp.cx, inst.a), LAMBDA ra :
           With(allocTmp(
                  gettmTests(
                    freeLastUseReg(Emit(ra.cx, Asm("mov", 64, RegArg(tmp.reg),
                                                   << MemArg(ra.reg, "metatable") >>)),
                                   inst.a.index, index),
                    inst, tmp.reg),
                  "gpr"),
                LAMBDA tmp2 :
                  IF tmp2.cx.fault # "" THEN tmp2.cx
                  ELSE gettmResult(
                         callGettm(Emit(tmp2.cx, Asm("mov", 64, RegArg(tmp2.reg),
                                                     << MemArg(0, "global") >>)),
                                   tmp.reg, tmp2.reg),
                         inst, index))))

\* the tests of the tag with the test for boolean left out: every tag that
\* is not nil goes on to the test of the value
notAnyTagNilOnly(cx, inst) ==
  IF inst.a.kind = "Constant" THEN L3(cx, 0, 0)
  ELSE With(regOp(cx, inst.a), LAMBDA r1 :
         L3(Branch(Emit(r1.cx, Asm("cmp", 32, RegArg(r1.reg), << ImmArg(Word(LUA_TNIL)) >>)),
                   "jcc", "Equal", 0, NoneOp),
            RefLabel(r1.cx, 0), 0))

\* the tests of the tag inst.a: to saveone when it is nil, to savezero when
\* it is not boolean
notAnyTag(cx, inst) ==
  IF inst.a.kind = "Constant"
  THEN IF tagOp(inst.a) = LUA_TBOOLEAN THEN L3(cx, 0, 0)
       ELSE L3(Fault(cx, "tagOp(inst.a) == LUA_TBOOLEAN"), 0, 0)
  ELSE With(regOp(cx, inst.a), LAMBDA r1 :
         With(Branch(Emit(r1.cx, Asm("cmp", 32, RegArg(r1.reg), << ImmArg(Word(LUA_TNIL)) >>)),
                     "jcc", "Equal", 0, NoneOp),
              LAMBDA c2 :
                With(regOp(c2, inst.a), LAMBDA r3 :
                  L3(Branch(Emit(r3.cx, Asm("cmp", 32, RegArg(r3.reg),
                                            << ImmArg(Word(LUA_TBOOLEAN)) >>)),
                            "jcc", "NotEqual", 0, NoneOp),
                     RefLabel(r1.cx, 0), RefLabel(r3.cx, 0)))))

\* the test of the value inst.b: to saveone when it is 0
notAnyValue(l, inst) ==
  IF l.cx.fault # "" THEN l
  ELSE IF inst.b.kind = "Constant"
  THEN IF intOp(inst.b) = 0
       THEN L3(Branch(l.cx, "jmp", "Count", l.one, NoneOp), RefLabel(l.cx, l.one), l.zero)
       ELSE l
  ELSE With(regOp(l.cx, inst.b), LAMBDA rb :
         L3(Branch(Emit(rb.cx, Asm("cmp", 32, RegArg(rb.reg), << ImmArg(Zero) >>)),
                   "jcc", "Equal", l.one, NoneOp),
            RefLabel(rb.cx, l.one), l.zero))

\* savezero: mov result, 0; jmp exit; saveone: mov result, 1; exit:
notAnySave(l, result) ==
  IF l.cx.fault # "" THEN l.cx
  ELSE With(Branch(Emit(Bind(l.cx, l.zero),
                        Asm("mov", 32, RegArg(result), << ImmArg(Zero) >>)),
                   "jmp", "Count", 0, NoneOp),
            LAMBDA c1 :
              Emit(Emit(Bind(c1, l.one),
                        Asm("mov", 32, RegArg(result), << ImmArg(Word(1)) >>)),
                   Ins("setLabel", "", c1.build.nextLabel - 1, NoneOp)))

NOT_ANY(cx, inst, index, next) ==
  With(allocRegOrReuse(cx, "gpr", index, << inst.a, inst.b >>), LAMBDA res :
    setResult(notAnySave(notAnyValue(notAnyTag(res.cx, inst), inst), res.reg),
              index, res.reg))

\* the scan without the test for zero before it
bitCountUntested(res, inst, scan, flip) ==
  With(regOp(res.cx, inst.a), LAMBDA rb :
    IF flip
    THEN Emit(Emit(rb.cx, Asm(scan, 32, RegArg(res.reg), << RegArg(rb.reg) >>)),
              Asm("xor", 32, RegArg(res.reg), << ImmArg(Word(31)) >>))
    ELSE Emit(rb.cx, Asm(scan, 32, RegArg(res.reg), << RegArg(rb.reg) >>)))

\* the test for zero and the branch to the label zero; then scan (bsr or
\* bsf) into the result, flip (xor with 0x1f) when it is set, and the result
\* 32 at zero
bitCount(res, inst, scan, flip) ==
  With(regOp(regOp(res.cx, inst.a).cx, inst.a), LAMBDA ra :
    With(Branch(Emit(ra.cx, Asm("test", 32, RegArg(ra.reg), << RegArg(ra.reg) >>)),
                "jcc", "Equal", 0, NoneOp),
         LAMBDA c1 :
           With(regOp(c1, inst.a), LAMBDA rb :
             With(Branch(
                    IF flip
                    THEN Emit(Emit(rb.cx, Asm(scan, 32, RegArg(res.reg), << RegArg(rb.reg) >>)),
                              Asm("xor", 32, RegArg(res.reg), << ImmArg(Word(31)) >>))
                    ELSE Emit(rb.cx, Asm(scan, 32, RegArg(res.reg), << RegArg(rb.reg) >>)),
                    "jmp", "Count", 0, NoneOp),
                  LAMBDA c2 :
                    Emit(Emit(Emit(c2, Ins("setLabel", "", RefLabel(ra.cx, 0), NoneOp)),
                              Asm("mov", 32, RegArg(res.reg), << ImmArg(Word(32)) >>)),
                         Ins("setLabel", "", RefLabel(rb.cx, 0), NoneOp))))))

BITCOUNTLZ_UINT(cx, inst, index, next) ==
  With(allocRegOrReuse(cx, "gpr", index, << inst.a >>), LAMBDA res :
    setResult(bitCount(res, inst, "bsr", TRUE), index, res.reg))

BITCOUNTRZ_UINT(cx, inst, index, next) ==
  With(allocRegOrReuse(cx, "gpr", index, << inst.a >>), LAMBDA res :
    setResult(bitCount(res, inst, "bsf", FALSE), index, res.reg))

\* the value test of CHECK_TRUTHY and the binding of skip, the label the
\* tag test branches to when the tag is not boolean (0: there is no tag test)
checkTruthyValue(cx, inst, next, skip) ==
  With(jumpOrAbortOnUndef(Emit(memRegUintOp(cx, inst.b).cx, Plain("cmp")),
                          "Equal", inst.c, next),
       LAMBDA c1 :
         IF c1.fault # "" \/ skip = 0 THEN c1
         ELSE Emit(c1, Ins("setLabel", "", skip, NoneOp)))

CHECK_TRUTHY(cx, inst, index, next) ==
  IF inst.a.kind = "Constant" /\ tagOp(inst.a) # LUA_TBOOLEAN
  THEN Fault(cx, "inst.a.kind != IrOpKind::Constant || tagOp(inst.a) == LUA_TBOOLEAN")
  ELSE IF inst.a.kind = "Constant" THEN checkTruthyValue(cx, inst, next, 0)
  ELSE With(Emit(memRegTagOp(
                   jumpOrAbortOnUndef(Emit(memRegTagOp(cx, inst.a).cx, Plain("cmp")),
                                      "Equal", inst.c, next),
                   inst.a).cx,
                 Plain("cmp")),
            LAMBDA c1 :
              IF c1.fault # "" THEN c1
              ELSE checkTruthyValue(Branch(c1, "jcc", "NotEqual", 0, NoneOp),
                                    inst, next, RefLabel(c1, 0)))

CHECK_READONLY(cx, inst, index, next) ==
  jumpOrAbortOnUndef(Emit(regOp(cx, inst.a).cx, Plain("cmp")), "NotEqual", inst.b, next)

CHECK_NO_METATABLE(cx, inst, index, next) ==
  jumpOrAbortOnUndef(Emit(regOp(cx, inst.a).cx, Plain("cmp")), "NotEqual", inst.b, next)

CHECK_ARRAY_SIZE(cx, inst, index, next) ==
  IF inst.b.kind \notin {"Inst", "Constant"}
  THEN Fault(cx, "Unsupported instruction form")
  ELSE jumpOrAbortOnUndef(
         Emit((IF inst.b.kind = "Inst" THEN regOp(regOp(cx, inst.a).cx, inst.b)
               ELSE regOp(cx, inst.a)).cx,
              Plain("cmp")),
         "BelowEqual", inst.c, next)

\* the three tests of the slot with the scratch register, each with a branch
\* to the label of the operand mismatchOp: first is that label as the first
\* branch names it (0: a local label not referenced yet), mismatch its id
slotTests(cx, inst, mismatchOp, first, mismatch) ==
  Branch(
    Emit(regOp(
           Branch(
             Emit(regOp(
                    Emit(Branch(
                           Emit(Emit(Emit(regOp(cx, inst.a).cx, Plain("mov")),
                                     Plain("and")),
                                Plain("cmp")),
                           "jcc", "NotEqual", first, mismatchOp),
                         Plain("mov")),
                    inst.a).cx,
                  Plain("cmp")),
             "jcc", "NotEqual", mismatch, mismatchOp),
           inst.a).cx,
         Plain("cmp")),
    "jcc", "Equal", mismatch, mismatchOp)

\* the tail of CHECK_SLOT_MATCH for an Undef operand: the jump over the trap
\* the label abort is bound to
slotAbort(cx, abort) ==
  Emit(Emit(Emit(Branch(cx, "jmp", "Count", 0, NoneOp),
                 Ins("setLabel", "", abort, NoneOp)),
            Plain("ud2")),
       Ins("setLabel", "", RefLabel(cx, 0), NoneOp))

\* inst.c is mismatchOp.  Its label is the local label abort when it is
\* Undef and labelOp(mismatchOp) otherwise, and labelOp asserts a block
CHECK_SLOT_MATCH(cx, inst, index, next) ==
  IF inst.c.kind \notin {"Undef", "Block"}
  THEN Fault(cx, "blockOp: operand is not a block")
  ELSE With(allocTmp(cx, "gpr"), LAMBDA tmp :
         IF tmp.cx.fault # "" THEN tmp.cx
         ELSE IF inst.c.kind = "Undef"
         THEN freeTmp(slotAbort(slotTests(tmp.cx, inst, inst.c, 0, RefLabel(tmp.cx, 0)),
                                RefLabel(tmp.cx, 0)),
                      tmp.reg)
         ELSE freeTmp(slotTests(tmp.cx, inst, inst.c, labelOp(inst.c), labelOp(inst.c)),
                      tmp.reg))

CHECK_NODE_NO_NEXT(cx, inst, index, next) ==
  With(allocTmp(cx, "gpr"), LAMBDA tmp :
    freeTmp(jumpOrAbortOnUndef(
              Emit(Emit(regOp(tmp.cx, inst.a).cx, Plain("mov")), Plain("shr")),
              "NotZero", inst.b, next),
            tmp.reg))

CHECK_NODE_VALUE(cx, inst, index, next) ==
  jumpOrAbortOnUndef(Emit(regOp(cx, inst.a).cx, Plain("cmp")), "Equal", inst.b, next)

\* the IR values that hold a register and the live values with no spill slot,
\* at the point where the interrupt check is emitted
RegisterState(cx) ==
  [held |-> {cx.regs.users[r] : r \in {q \in Regs : ~cx.regs.free[q]}} \ {kInvalidInstIdx},
   inUse |-> {r \in Regs : ~cx.regs.free[r]},
   unspilled |-> {i \in InstIds :
                   /\ cx.inst[i].kind # "none"
                   /\ i < cx.regs.currInstIdx
                   /\ cx.inst[i].lastUse >= cx.regs.currInstIdx
                   /\ ~(\E s \in cx.regs.spills : s.instIdx = i)}]

\* interruptCheck that makes no second handler for a pcpos
interruptCheckOncePerPc(c2, tmp, pcpos) ==
  freeTmp(
    [BumpLabel(Emit(Branch(c2, "jcc", "NotEqual", 0, NoneOp),
                    Ins("setLabel", "", RefLabel(c2, 0) + 1, NoneOp)), 0)
       EXCEPT !.obs.interruptSnap = [state |-> RegisterState(c2), scratch |-> tmp],
              !.interruptHandlers =
                 IF \E k \in 1..Len(@) : @[k].pcpos = pcpos THEN @
                 ELSE Append(@, [self |-> RefLabel(c2, 0), pcpos |-> pcpos,
                                 next |-> RefLabel(c2, 0) + 1])],
    tmp)

\* the interrupt check with the scratch register tmp: the branch to the
\* fresh label self, the label next bound after it, and the handler record
interruptCheck(c2, tmp, pcpos) ==
  freeTmp(
    [BumpLabel(Emit(Branch(c2, "jcc", "NotEqual", 0, NoneOp),
                    Ins("setLabel", "", RefLabel(c2, 0) + 1, NoneOp)), 0)
       EXCEPT !.obs.interruptSnap = [state |-> RegisterState(c2), scratch |-> tmp],
              !.interruptHandlers =
                 Append(@, [self |-> RefLabel(c2, 0), pcpos |-> pcpos,
                            next |-> RefLabel(c2, 0) + 1])],
    tmp)

\* INTERRUPT that leaves the values in their registers
INTERRUPT_NoSpill(cx, inst, index, next) ==
  With(allocTmp(cx, "gpr"), LAMBDA tmp :
    IF tmp.cx.fault # "" THEN tmp.cx
    ELSE interruptCheck(Emit(Emit(tmp.cx, Plain("mov")), Plain("cmp")),
                        tmp.reg, uintOp(inst.a)))

INTERRUPT(cx, inst, index, next) ==
  With(allocTmp(preserveAndFreeInstValues(cx), "gpr"), LAMBDA tmp :
    IF tmp.cx.fault # "" THEN tmp.cx
    ELSE interruptCheck(Emit(Emit(tmp.cx, Plain("mov")), Plain("cmp")),
                        tmp.reg, uintOp(inst.a)))

\* ---------------------------------------------------------------- lowerInst
\* IrValueLocationTracking::beforeInstLowering may call the restore callback
\* set in the constructor; which value it restores is an input (cx.eager)
beforeInstLowering(cx, inst) ==
  IF cx.eager # kInvalidInstIdx THEN restore(cx, cx.eager, FALSE) ELSE cx

\* ------------------------------------------------- calls of runtime helpers
\* the operands of a call: the place of argument n (the call wrapper picks
\* the register or stack slot), the address of a VM register, rBase, and
\* the entry of the native context that is called
ArgSlot(n) == [k |-> "arg", n |-> n]
luauRegAddress(op) == [k |-> "vmaddr", op |-> op]
BaseArg == [k |-> "base"]
HelperArg(name) == [k |-> "helper", name |-> name]

\* callWrap.addArgument: the argument is moved to its place; an address is
\* computed with lea
addArgument(cx, n, w, src) ==
  IF cx.fault # "" THEN cx
  ELSE Emit(cx, Asm(IF src.k = "vmaddr" THEN "lea" ELSE "mov", w, ArgSlot(n), << src >>))

\* callWrap.call: the live values are spilled, then the helper is called
callHelper(cx, name) ==
  IF cx.fault # "" THEN cx
  ELSE Emit(preserveAndFreeInstValues(cx),
            Asm("call", 64, RegArg(rax), << HelperArg(name) >>))

\* mov rBase, qword [rState + offsetof(lua_State, base)]
emitUpdateBase(cx) ==
  IF cx.fault # "" THEN cx
  ELSE Emit(cx, Asm("mov", 64, BaseArg, << MemArg(0, "base") >>))

\* checkObjectBarrierConditions: to skip when the value is not collectable
\* (tested when its tag is not known), when the object is not black, when
\* the value is not white
checkObjectBarrierConditions(cx, tmp, object, ra, tagKnown) ==
  With(IF tagKnown THEN cx
       ELSE Branch(Emit(cx, Asm("cmp", 32, luauRegTag(ra), << ImmArg(Word(5)) >>)),
                   "jcc", "Less", cx.build.nextLabel, NoneOp),
       LAMBDA c1 :
         Branch(Emit(Emit(
           Branch(Emit(c1, Asm("test", 8, MemArg(object, "marked"), << ImmArg(Word(4)) >>)),
                  "jcc", "Zero", cx.build.nextLabel, NoneOp),
           Asm("mov", 64, RegArg(tmp), << VmArg(ra) >>)),
           Asm("test", 8, MemArg(tmp, "marked"), << ImmArg(Word(3)) >>)),
           "jcc", "Zero", cx.build.nextLabel, NoneOp))

\* the call of luaC_barriertable without ScopedSpills around it
barrierCallNoScope(cx, inst, index, tmp, ra) ==
  callHelper(
    freeTmp(freeLastUseReg(
              addArgument(addArgument(addArgument(cx, 1, 64, MemArg(0, "rState")),
                                      2, 64, RegArg(ra)),
                          3, 64, RegArg(tmp)),
              inst.a.index, index),
            tmp),
    "luaC_barriertable")

\* the call of luaC_barriertable(L, table, value) under ScopedSpills: the
\* wrapper moves the arguments, gives up the table's register at its last
\* use and the temporary, spills the live values and calls; the scope ends
barrierCall(cx, inst, index, tmp, ra) ==
  restoreScope(
    callHelper(
      freeTmp(freeLastUseReg(
                addArgument(addArgument(addArgument(cx, 1, 64, MemArg(0, "rState")),
                                        2, 64, RegArg(ra)),
                            3, 64, RegArg(tmp)),
                inst.a.index, index),
              tmp),
      "luaC_barriertable"),
    cx.regs.spills)

BARRIER_TABLE_FORWARD(cx, inst, index, next) ==
  IF inst.b.kind # "VmReg" THEN Fault(cx, "vmRegOp: operand is not a VM register")
  ELSE With(allocTmp(cx, "gpr"), LAMBDA tmp :
    IF tmp.cx.fault # "" THEN tmp.cx
    ELSE With(regOp(tmp.cx, inst.a), LAMBDA ra :
      IF ra.cx.fault # "" THEN ra.cx
      ELSE BumpLabel(Bind(barrierCall(
                            checkObjectBarrierConditions(ra.cx, tmp.reg, ra.reg, inst.b,
                                                         inst.c.kind # "Undef"),
                            inst, index, tmp.reg, ra.reg),
                          ra.cx.build.nextLabel),
                     0)))

\* L->openupval != 0 and ra <= L->openupval->v, or to next
closeUpvalsTests(cx, inst, tmp1, tmp2) ==
  Branch(Emit(Emit(
    Branch(Emit(Emit(cx,
             Asm("mov", 64, RegArg(tmp1), << MemArg(0, "openupval") >>)),
             Asm("test", 64, RegArg(tmp1), << RegArg(tmp1) >>)),
           "jcc", "Zero", cx.build.nextLabel, NoneOp),
    Asm("lea", 64, RegArg(tmp2), << luauRegAddress(inst.a) >>)),
    Asm("cmp", 64, RegArg(tmp2), << MemArg(tmp1, "v") >>)),
    "jcc", "Above", cx.build.nextLabel, NoneOp)

\* the call of luaF_close(L, ra) under ScopedSpills
closeCall(cx, tmp2) ==
  restoreScope(
    callHelper(freeTmp(addArgument(addArgument(cx, 1, 64, MemArg(0, "rState")),
                                   2, 64, RegArg(tmp2)),
                       tmp2),
               "luaF_close"),
    cx.regs.spills)

CLOSE_UPVALS(cx, inst, index, next) ==
  IF inst.a.kind # "VmReg" THEN Fault(cx, "vmRegOp: operand is not a VM register")
  ELSE With(allocTmp(cx, "gpr"), LAMBDA tmp1 :
    With(allocTmp(tmp1.cx, "gpr"), LAMBDA tmp2 :
      IF tmp2.cx.fault # "" THEN tmp2.cx
      ELSE BumpLabel(Bind(closeCall(freeTmp(closeUpvalsTests(tmp2.cx, inst, tmp1.reg,
                                                             tmp2.reg),
                                            tmp1.reg),
                                    tmp2.reg),
                          tmp2.cx.build.nextLabel),
                     0)))

\* ------------------------------------- fallbacks to the bytecode's own code
\* regs.assertAllFree: every register is free
assertAllFree(cx) ==
  IF cx.fault # "" THEN cx
  ELSE IF \E r \in Regs : ~cx.regs.free[r] THEN Fault(cx, "assertAllFree")
  ELSE cx

\* regs.assertNoSpills: no value is spilled
assertNoSpills(cx) ==
  IF cx.fault # "" THEN cx
  ELSE IF cx.regs.spills # {} THEN Fault(cx, "assertNoSpills")
  ELSE cx

\* emitInstSetList; the operand f of the instruction is not modelled
SETLIST(cx, inst, index, next) ==
  With(assertAllFree(cx), LAMBDA c1 :
    IF c1.fault # "" THEN c1
    ELSE IF inst.b.kind # "VmReg" \/ inst.c.kind # "VmReg"
    THEN Fault(c1, "vmRegOp: operand is not a VM register")
    ELSE Emit(c1, Plain("emitInstSetList")))

\* CALL that does not look at the spills
CALL_AllFreeOnly(cx, inst, index, next) ==
  With(assertAllFree(cx), LAMBDA c1 :
    IF c1.fault # "" THEN c1
    ELSE IF inst.a.kind # "VmReg" THEN Fault(c1, "vmRegOp: operand is not a VM register")
    ELSE Emit(c1, Plain("emitInstCall")))

CALL(cx, inst, index, next) ==
  With(assertNoSpills(assertAllFree(cx)), LAMBDA c1 :
    IF c1.fault # "" THEN c1
    ELSE IF inst.a.kind # "VmReg" THEN Fault(c1, "vmRegOp: operand is not a VM register")
    ELSE Emit(c1, Plain("emitInstCall")))

RETURN(cx, inst, index, next) ==
  With(assertNoSpills(assertAllFree(cx)), LAMBDA c1 :
    IF c1.fault # "" THEN c1
    ELSE IF inst.a.kind # "VmReg" THEN Fault(c1, "vmRegOp: operand is not a VM register")
    ELSE Emit(c1, Plain("emitInstReturn")))

\* emitInstForGLoop branches to the loop at inst.c; the exit is inst.d
FORGLOOP(cx, inst, index, next) ==
  With(assertAllFree(cx), LAMBDA c1 :
    IF c1.fault # "" THEN c1
    ELSE IF inst.a.kind # "VmReg" THEN Fault(c1, "vmRegOp: operand is not a VM register")
    ELSE IF inst.c.kind # "Block" \/ inst.d.kind # "Block"
    THEN Fault(c1, "blockOp: operand is not a block")
    ELSE jumpOrFallthrough(
           Branch(Emit(c1, Plain("emitInstForGLoop")), "jcc", "NotZero", labelOp(inst.c),
                  inst.c),
           blockOp(inst.d), next))

\* the helper CMP_ANY calls for a condition
compareHelper(cond) ==
  CASE cond = "LessEqual" -> "luaV_lessequal"
    [] cond = "Less" -> "luaV_lessthan"
    [] cond = "Equal" -> "luaV_equalval"
    [] OTHER -> ""

\* the three arguments of CMP_ANY and its call
cmpAnyCall(cx, inst) ==
  callHelper(addArgument(addArgument(addArgument(cx, 1, 64, MemArg(0, "rState")),
                                     2, 64, luauRegAddress(inst.a)),
                         3, 64, luauRegAddress(inst.b)),
             compareHelper(conditionOp(inst.c)))

\* CMP_ANY that claims eax for the result before the call
CMP_ANY_ResultFirst(cx, inst, index, next) ==
  IF inst.a.kind # "VmReg" \/ inst.b.kind # "VmReg"
  THEN Fault(cx, "vmRegOp: operand is not a VM register")
  ELSE IF compareHelper(conditionOp(inst.c)) = "" THEN Fault(cx, "Unsupported condition")
  ELSE emitUpdateBase(cmpAnyCall(setResult(takeReg(cx, rax, index), index, rax), inst))

CMP_ANY(cx, inst, index, next) ==
  IF inst.a.kind # "VmReg" \/ inst.b.kind # "VmReg"
  THEN Fault(cx, "vmRegOp: operand is not a VM register")
  ELSE IF compareHelper(conditionOp(inst.c)) = "" THEN Fault(cx, "Unsupported condition")
  ELSE With(emitUpdateBase(cmpAnyCall(cx, inst)), LAMBDA c1 :
         setResult(takeReg(c1, rax, index), index, rax))

\* mov tmp1, sClosure; the six arguments; call luaV_getimport; the base
GET_IMPORT(cx, inst, index, next) ==
  IF inst.a.kind # "VmReg" THEN Fault(cx, "vmRegOp: operand is not a VM register")
  ELSE IF inst.b.kind # "Constant" THEN Fault(cx, "uintOp: operand is not a constant")
  ELSE With(allocTmp(cx, "gpr"), LAMBDA tmp1 :
    IF tmp1.cx.fault # "" THEN tmp1.cx
    ELSE emitUpdateBase(callHelper(
           addArgument(addArgument(addArgument(addArgument(addArgument(addArgument(
             freeTmp(Emit(tmp1.cx, Asm("mov", 64, RegArg(tmp1.reg),
                                       << MemArg(0, "sClosure") >>)),
                     tmp1.reg),
             1, 64, MemArg(0, "rState")),
             2, 64, MemArg(tmp1.reg, "env")),
             3, 64, MemArg(0, "rConstants")),
             4, 64, luauRegAddress(inst.a)),
             5, 32, ImmArg(WordOfInt(uintOp(inst.b)))),
             6, 32, ImmArg(Zero)),
           "luaV_getimport")))

\* luaV_concat(L, b, a + b - 1) and the base
CONCAT(cx, inst, index, next) ==
  IF inst.a.kind # "VmReg" THEN Fault(cx, "vmRegOp: operand is not a VM register")
  ELSE IF inst.b.kind # "Constant" THEN Fault(cx, "uintOp: operand is not a constant")
  ELSE emitUpdateBase(callHelper(
         addArgument(addArgument(addArgument(cx,
           1, 64, MemArg(0, "rState")),
           2, 32, ImmArg(WordOfInt(uintOp(inst.b)))),
           3, 32, ImmArg(WordOfInt(vmRegOp(inst.a) + uintOp(inst.b) - 1))),
         "luaV_concat"))

\* forgLoopNonTableFallback(L, a, b), the base, then the loop is continued
\* at inst.c when al is not zero and left for inst.d otherwise
FORGLOOP_FALLBACK(cx, inst, index, next) ==
  IF inst.a.kind # "VmReg" THEN Fault(cx, "vmRegOp: operand is not a VM register")
  ELSE IF inst.b.kind # "Constant" THEN Fault(cx, "intOp: operand is not a constant")
  ELSE IF inst.c.kind # "Block" \/ inst.d.kind # "Block"
  THEN Fault(cx, "blockOp: operand is not a block")
  ELSE jumpOrFallthrough(
         Branch(Emit(emitUpdateBase(callHelper(
                  addArgument(addArgument(addArgument(cx,
                    1, 64, MemArg(0, "rState")),
                    2, 32, ImmArg(WordOfInt(vmRegOp(inst.a)))),
                    3, 32, ImmArg(WordOfInt(intOp(inst.b)))),
                  "forgLoopNonTableFallback")),
                Asm("test", 8, RegArg(rax), << RegArg(rax) >>)),
                "jcc", "NotZero", labelOp(inst.c), inst.c),
         blockOp(inst.d), next)

\* forgPrepXnextFallback(L, &b, a + 1) raises an error or returns: the base
\* is not reloaded
FORGPREP_XNEXT_FALLBACK(cx, inst, index, next) ==
  IF inst.b.kind # "VmReg" THEN Fault(cx, "vmRegOp: operand is not a VM register")
  ELSE IF inst.a.kind # "Constant" THEN Fault(cx, "uintOp: operand is not a constant")
  ELSE IF inst.c.kind # "Block" THEN Fault(cx, "blockOp: operand is not a block")
  ELSE jumpOrFallthrough(
         callHelper(addArgument(addArgument(addArgument(cx,
                      1, 64, MemArg(0, "rState")),
                      2, 64, luauRegAddress(inst.b)),
                      3, 32, ImmArg(WordOfInt(uintOp(inst.a) + 1))),
                    "forgPrepXnextFallback"),
         blockOp(inst.c), next)

afterInstLowering(cx, inst, index) == cx

sizeofInstruction == 4

\* COVERAGE: the hit counter of the instruction at pc, the upper 24 bits of
\* its word, is counted up to (1 << 23) - 1
coverageLoad(cx, inst, tmp1, tmp2) ==
  Emit(Emit(Emit(Emit(cx,
    Asm("mov", 64, RegArg(tmp1), << MemArg(0, "sCode") >>)),
    Asm("add", 64, RegArg(tmp1), << ImmArg(Word(uintOp(inst.a) * sizeofInstruction)) >>)),
    Asm("mov", 32, RegArg(tmp2), << MemArg(tmp1, "insn") >>)),
    Asm("sar", 32, RegArg(tmp2), << ImmArg(Word(8)) >>))

coverageCount(cx, tmp2, tmp3, cond) ==
  Emit(Emit(Emit(Emit(cx,
    Asm("xor", 32, RegArg(tmp3), << RegArg(tmp3) >>)),
    Asm("cmp", 32, RegArg(tmp2), << ImmArg(Word(2 ^ 23 - 1)) >>)),
    [Asm("setcc", 8, RegArg(tmp3), << >>) EXCEPT !.cond = cond]),
    Asm("add", 32, RegArg(tmp2), << RegArg(tmp3) >>))

coveragePatch(cx, tmp1, tmp2, tmp3) ==
  Emit(Emit(Emit(Emit(cx,
    Asm("sal", 32, RegArg(tmp2), << ImmArg(Word(8)) >>)),
    Asm("movzx", 32, RegArg(tmp3), << MemArg(tmp1, "insn") >>)),
    Asm("or", 32, RegArg(tmp3), << RegArg(tmp2) >>)),
    Asm("mov", 32, MemArg(tmp1, "insn"), << RegArg(tmp3) >>))

coverageWith(cx, inst, cond) ==
  With(allocTmp(cx, "gpr"), LAMBDA tmp1 :
    With(allocTmp(tmp1.cx, "gpr"), LAMBDA tmp2 :
      With(allocTmp(tmp2.cx, "gpr"), LAMBDA tmp3 :
        IF tmp3.cx.fault # "" THEN tmp3.cx
        ELSE freeTmp(freeTmp(freeTmp(
               coveragePatch(
                 coverageCount(coverageLoad(tmp3.cx, inst, tmp1.reg, tmp2.reg),
                               tmp2.reg, tmp3.reg, cond),
                 tmp1.reg, tmp2.reg, tmp3.reg),
               tmp3.reg), tmp2.reg), tmp1.reg))))

\* the same with the test of the counter reversed
COVERAGE_CountAtLimit(cx, inst, index, next) == coverageWith(cx, inst, "Equal")

COVERAGE(cx, inst, index, next) == coverageWith(cx, inst, "NotEqual")

lowerCase(cx, inst, index, next) ==
  CASE inst.cmd = "LOAD_INT" -> LOAD_INT(cx, inst, index, next)
    [] inst.cmd = "LOAD_POINTER" -> LOAD_POINTER(cx, inst, index, next)
    [] inst.cmd = "STRING_LEN" -> STRING_LEN(cx, inst, index, next)
    [] inst.cmd = "BITLSHIFT_UINT" -> BITLSHIFT_UINT(cx, inst, index, next)
    [] inst.cmd = "JUMP" -> JUMP(cx, inst, index, next)
    [] inst.cmd = "JUMP_EQ_TAG" -> JUMP_EQ_TAG(cx, inst, index, next)
    [] inst.cmd = "JUMP_EQ_INT" -> JUMP_EQ_INT(cx, inst, index, next)
    [] inst.cmd = "JUMP_LT_INT" -> JUMP_LT_INT(cx, inst, index, next)
    [] inst.cmd = "JUMP_GE_UINT" -> JUMP_GE_UINT(cx, inst, index, next)
    [] inst.cmd = "JUMP_EQ_POINTER" -> JUMP_EQ_POINTER(cx, inst, index, next)
    [] inst.cmd = "JUMP_CMP_NUM" -> JUMP_CMP_NUM(cx, inst, index, next)
    [] inst.cmd = "CHECK_TAG" -> CHECK_TAG(cx, inst, index, next)
    [] inst.cmd = "CHECK_SAFE_ENV" -> CHECK_SAFE_ENV(cx, inst, index, next)
    [] inst.cmd = "CHECK_TRUTHY" -> CHECK_TRUTHY(cx, inst, index, next)
    [] inst.cmd = "CHECK_READONLY" -> CHECK_READONLY(cx, inst, index, next)
    [] inst.cmd = "CHECK_NO_METATABLE" -> CHECK_NO_METATABLE(cx, inst, index, next)
    [] inst.cmd = "CHECK_ARRAY_SIZE" -> CHECK_ARRAY_SIZE(cx, inst, index, next)
    [] inst.cmd = "CHECK_SLOT_MATCH" -> CHECK_SLOT_MATCH(cx, inst, index, next)
    [] inst.cmd = "CHECK_NODE_NO_NEXT" -> CHECK_NODE_NO_NEXT(cx, inst, index, next)
    [] inst.cmd = "CHECK_NODE_VALUE" -> CHECK_NODE_VALUE(cx, inst, index, next)
    [] inst.cmd = "INTERRUPT" -> INTERRUPT(cx, inst, index, next)
    [] inst.cmd = "LOAD_TAG" -> LOAD_TAG(cx, inst, index, next)
    [] inst.cmd = "LOAD_DOUBLE" -> LOAD_DOUBLE(cx, inst, index, next)
    [] inst.cmd = "STORE_DOUBLE" -> STORE_DOUBLE(cx, inst, index, next)
    [] inst.cmd = "ADD_INT" -> ADD_INT(cx, inst, index, next)
    [] inst.cmd = "SUB_INT" -> SUB_INT(cx, inst, index, next)
    [] inst.cmd = "BITAND_UINT" -> BITAND_UINT(cx, inst, index, next)
    [] inst.cmd = "GET_HASH_NODE_ADDR" -> GET_HASH_NODE_ADDR(cx, inst, index, next)
    [] inst.cmd = "TRY_CALL_FASTGETTM" -> TRY_CALL_FASTGETTM(cx, inst, index, next)
    [] inst.cmd = "ADD_NUM" -> ADD_NUM(cx, inst, index, next)
    [] inst.cmd = "MOD_NUM" -> MOD_NUM(cx, inst, index, next)
    [] inst.cmd = "ROUND_NUM" -> ROUND_NUM(cx, inst, index, next)
    [] inst.cmd = "NOT_ANY" -> NOT_ANY(cx, inst, index, next)
    [] inst.cmd = "BITCOUNTLZ_UINT" -> BITCOUNTLZ_UINT(cx, inst, index, next)
    [] inst.cmd = "BITCOUNTRZ_UINT" -> BITCOUNTRZ_UINT(cx, inst, index, next)
    [] inst.cmd = "BARRIER_TABLE_FORWARD" -> BARRIER_TABLE_FORWARD(cx, inst, index, next)
    [] inst.cmd = "CLOSE_UPVALS" -> CLOSE_UPVALS(cx, inst, index, next)
    [] inst.cmd = "SETLIST" -> SETLIST(cx, inst, index, next)
    [] inst.cmd = "CALL" -> CALL(cx, inst, index, next)
    [] inst.cmd = "RETURN" -> RETURN(cx, inst, index, next)
    [] inst.cmd = "FORGLOOP" -> FORGLOOP(cx, inst, index, next)
    [] inst.cmd = "CMP_ANY" -> CMP_ANY(cx, inst, index, next)
    [] inst.cmd = "GET_IMPORT" -> GET_IMPORT(cx, inst, index, next)
    [] inst.cmd = "CONCAT" -> CONCAT(cx, inst, index, next)
    [] inst.cmd = "FORGLOOP_FALLBACK" -> FORGLOOP_FALLBACK(cx, inst, index, next)
    [] inst.cmd = "FORGPREP_XNEXT_FALLBACK" -> FORGPREP_XNEXT_FALLBACK(cx, inst, index, next)
    [] inst.cmd = "COVERAGE" -> COVERAGE(cx, inst, index, next)
    [] OTHER -> Fault(cx, "Pseudo instructions should not be lowered")

lowerInst(cx, inst, index, next) ==
  freeLastUseRegs(
    afterInstLowering(
      lowerCase(beforeInstLowering([cx EXCEPT !.regs.currInstIdx = index], inst),
                inst, index, next),
      inst, index),
    inst, index)

\* -------------------------------------------- finishBlock, finishFunction
\* finishBlock without its assertions
finishBlockUnchecked(spills, curr, preds, useCount) == ""

\* the assertion of finishBlock that fails, "" when none does; preds and
\* useCount are those of next
finishBlock(spills, curr, preds, useCount) ==
  IF spills # {}
  THEN IF \E predIdx \in preds : predIdx # curr
       THEN "predIdx == function.getBlockIndex(curr)"
       ELSE IF useCount # 1 THEN "next.useCount == 1" ELSE ""
  ELSE ""

RECURSIVE emitInterruptHandlers(_, _)
emitInterruptHandlers(code, handlers) ==
  IF handlers = <<>> THEN code
  ELSE emitInterruptHandlers(
         code \o << Ins("setLabel", "", Head(handlers).self, NoneOp),
                    InsImm("mov", Head(handlers).pcpos + 1),
                    Ins("lea", "", Head(handlers).next, NoneOp),
                    Ins("jmp", "Count", interruptLabel, NoneOp) >>,
         Tail(handlers))

RECURSIVE emitExitHandlers(_, _)
emitExitHandlers(code, handlers) ==
  IF handlers = <<>> THEN code
  ELSE emitExitHandlers(
         code \o << Ins("setLabel", "", Head(handlers).self, NoneOp),
                    InsImm("mov", Head(handlers).pcpos * sizeofInstruction),
                    Ins("jmp", "Count", updatePcAndContinueInVm, NoneOp) >>,
         Tail(handlers))

\* the assertion of finishFunction that fails, "" when none does
finishFunctionAssert(handlers) ==
  IF \E k \in 1..Len(handlers) : handlers[k].pcpos = kVmExitEntryGuardPc
  THEN "handler.pcpos != kVmExitEntryGuardPc" ELSE ""

\* finishFunction that emits the exit handlers first
finishFunctionExitsFirst(intHandlers, extHandlers) ==
  emitInterruptHandlers(emitExitHandlers(<<>>, extHandlers), intHandlers)

finishFunction(intHandlers, extHandlers) ==
  emitExitHandlers(emitInterruptHandlers(<<>>, intHandlers), extHandlers)

\* ------------------------------------------------------------------ state
VARIABLES
  instructions,       \* function.instructions
  regs,               \* IrRegAllocX64
  mach,               \* symbolic register and spill slot contents
  build,              \* AssemblyBuilderX64: nextLabel, code of the last step
  exitHandlers,
  exitHandlerMap,
  interruptHandlers,
  blk,                \* the driver: current block, instructions lowered
  phase,              \* "lowering", "blocksDone", "finished", "abort"
  fault,              \* the assertion that stopped the pass
  obs                 \* observations for the properties

vars == << instructions, regs, mach, build, exitHandlers, exitHandlerMap,
           interruptHandlers, blk, phase, fault, obs >>

I(cmd, a, b, c, d, e) == [cmd |-> cmd, a |-> a, b |-> b, c |-> c, d |-> d, e |-> e]
NoInst == I("NOP", NoneOp, NoneOp, NoneOp, NoneOp, NoneOp)
NoSnap == [state |-> [held |-> {}, inUse |-> {}, unspilled |-> {}], scratch |-> noreg]

\* hasError that reports the last slot of the budget as an overflow
hasErrorAtLimit == regs.maxUsedSlot >= kSpillSlots

hasError == regs.maxUsedSlot > kSpillSlots

ValueKind(cmd) ==
  CASE cmd \in {"LOAD_INT", "STRING_LEN", "BITLSHIFT_UINT", "ADD_INT", "SUB_INT",
                "BITAND_UINT", "NOT_ANY", "BITCOUNTLZ_UINT", "BITCOUNTRZ_UINT",
                "CMP_ANY"} -> "int"
    [] cmd \in {"LOAD_POINTER", "GET_HASH_NODE_ADDR", "TRY_CALL_FASTGETTM"} -> "pointer"
    [] cmd = "LOAD_TAG" -> "tag"
    [] cmd \in {"LOAD_DOUBLE", "ADD_NUM", "MOD_NUM", "ROUND_NUM"} -> "double"
    [] OTHER -> "none"

IsTerminator(cmd) ==
  cmd \in {"JUMP", "JUMP_EQ_TAG", "JUMP_EQ_INT", "JUMP_LT_INT", "JUMP_GE_UINT",
           "JUMP_EQ_POINTER", "JUMP_CMP_NUM", "FORGLOOP_FALLBACK",
           "FORGPREP_XNEXT_FALLBACK", "RETURN", "FORGLOOP"}

IsTwoWay(cmd) ==
  cmd \in {"JUMP_EQ_TAG", "JUMP_EQ_INT", "JUMP_LT_INT", "JUMP_GE_UINT",
           "JUMP_EQ_POINTER", "JUMP_CMP_NUM"}

\* the opcodes whose code the model runs
IsComputed(cmd) ==
  cmd \in {"ADD_INT", "SUB_INT", "BITAND_UINT", "NOT_ANY", "BITCOUNTLZ_UINT",
           "BITCOUNTRZ_UINT", "GET_HASH_NODE_ADDR", "TRY_CALL_FASTGETTM", "ADD_NUM",
           "MOD_NUM", "ROUND_NUM", "BARRIER_TABLE_FORWARD", "CLOSE_UPVALS", "COVERAGE"}

\* the registers and spill slots before a step whose code is run, with the
\* values that were live
NoPre == [reg |-> [r \in Regs |-> Junk], slot |-> [q \in SpillArea |-> Junk]]
PreState == mach

\* what is kept of a run of the code of the last step: nothing yet
NoRun == [done |-> FALSE]

IsGuard(cmd) ==
  cmd \in {"CHECK_TAG", "CHECK_TRUTHY", "CHECK_READONLY", "CHECK_NO_METATABLE",
           "CHECK_SAFE_ENV", "CHECK_ARRAY_SIZE", "CHECK_SLOT_MATCH",
           "CHECK_NODE_NO_NEXT", "CHECK_NODE_VALUE"}

\* the instruction remembered for the properties of the branches
\* opcodes lowered as calls of the runtime
IsCall(cmd) == cmd \in {"CMP_ANY", "GET_IMPORT", "CONCAT", "SETLIST", "CALL"}

LastOf(inst) ==
  IF IsTerminator(inst.cmd) \/ IsGuard(inst.cmd) \/ IsComputed(inst.cmd) \/ IsCall(inst.cmd)
  THEN inst
  ELSE NoInst

NextBlock == IF blk.curr = NumBlocks THEN DummyBlock ELSE blk.curr + 1

\* the state after construction.  whole tells whether the observer keeps
\* the code and the instructions of every step (obs.text, obs.program) or
\* those of the last step only
Constructed(whole) ==
  /\ instructions = [i \in InstIds |->
        [kind |-> "none", regX64 |-> noreg, spilled |-> FALSE,
         needsReload |-> FALSE, lastUse |-> 0, reusedReg |-> FALSE, restores |-> 0]]
  /\ regs = [free |-> [r \in Regs |-> TRUE], users |-> [r \in Regs |-> kInvalidInstIdx],
             spills |-> {}, usedSpillSlots |-> {}, maxUsedSlot |-> 0, currInstIdx |-> 0]
  /\ mach = [reg |-> [r \in Regs |-> Junk], slot |-> [s \in SpillArea |-> Junk]]
  /\ build = [nextLabel |-> FirstFreshLabel, code |-> <<>>]
  /\ exitHandlers = <<>>
  /\ exitHandlerMap = <<>>
  /\ interruptHandlers = <<>>
  /\ blk = [curr |-> 1, index |-> 0, start |-> 0, done |-> FALSE,
            entry |-> [predsOnlyCurr |-> TRUE, useCount |-> 0, spills |-> FALSE]]
  /\ phase = "lowering"
  /\ fault = ""
  /\ obs = [reads |-> {}, frees |-> {}, interruptSnap |-> NoSnap, exitEdges |-> {}, peakSpills |-> 0,
            pre |-> NoPre, run |-> NoRun,
            whole |-> whole, text |-> <<>>, program |-> <<>>,
            interruptLog |-> <<>>, last |-> NoInst, lastNext |-> 0]

Init == Constructed(FALSE)
InitWhole == Constructed(TRUE)

\* the exit edges of the code of instruction at: branches whose target is a
\* VmExit
ExitEdgesOf(code, at) ==
  {[pc |-> vmExitOp(code[k].target), label |-> code[k].label, at |-> at] :
     k \in {j \in 1..Len(code) : code[j].op \in {"jmp", "jcc"}
                                  /\ code[j].target.kind = "VmExit"}}

\* the context a step starts from.  dying are the operands whose lastUse is
\* this instruction, far the value with the furthest next use, eager the
\* value the value tracker restores first
Context(inst, index, dying, far, eager) ==
  [inst |-> [i \in InstIds |->
               IF i = index
               THEN [instructions[i] EXCEPT !.kind = ValueKind(inst.cmd), !.lastUse = Later]
               ELSE IF i \in dying THEN [instructions[i] EXCEPT !.lastUse = index]
               ELSE instructions[i]],
   regs |-> regs, mach |-> mach,
   build |-> [build EXCEPT !.code = <<>>],
   exitHandlers |-> exitHandlers, exitHandlerMap |-> exitHandlerMap,
   interruptHandlers |-> interruptHandlers,
   fault |-> "",
   obs |-> [reads |-> {}, frees |-> {}, interruptSnap |-> NoSnap,
            peakSpills |-> obs.peakSpills],
   far |-> far, eager |-> eager, curOps |-> InstOperands(inst)]

\* lowerInst on the next instruction of the current block
LowerInst(inst, dying, far, eager) ==
  /\ phase = "lowering"
  /\ ~blk.done
  /\ blk.index < MaxInsts
  /\ \E cx1 \in {lowerInst(Context(inst, blk.index + 1, dying, far, eager),
                           inst, blk.index + 1, NextBlock)} :
       /\ cx1.fault # "Out of registers to allocate"
       /\ IF cx1.fault # ""
          THEN /\ phase' = "abort"
               /\ fault' = cx1.fault
               /\ obs' = [obs EXCEPT !.last = LastOf(inst), !.lastNext = NextBlock,
                                     !.run = NoRun]
               /\ UNCHANGED << instructions, regs, mach, build, exitHandlers,
                               exitHandlerMap, interruptHandlers, blk >>
          ELSE /\ instructions' = cx1.inst
               /\ regs' = cx1.regs
               /\ mach' = cx1.mach
               /\ build' = cx1.build
               /\ exitHandlers' = cx1.exitHandlers
               /\ exitHandlerMap' = cx1.exitHandlerMap
               /\ interruptHandlers' = cx1.interruptHandlers
               /\ blk' = [blk EXCEPT !.index = @ + 1, !.done = IsTerminator(inst.cmd)]
               /\ obs' = [reads |-> cx1.obs.reads,
                          frees |-> cx1.obs.frees,
                          pre |-> IF IsComputed(inst.cmd) THEN PreState ELSE NoPre,
                          run |-> NoRun,
                          whole |-> obs.whole,
                          text |-> IF obs.whole THEN obs.text \o cx1.build.code ELSE <<>>,
                          program |-> IF obs.whole THEN Append(obs.program, inst) ELSE <<>>,
                          interruptSnap |-> cx1.obs.interruptSnap,
                          exitEdges |-> obs.exitEdges
                                          \cup ExitEdgesOf(cx1.build.code, blk.index + 1),
                          peakSpills |-> cx1.obs.peakSpills,
                          interruptLog |-> IF inst.cmd = "INTERRUPT"
                                           THEN Append(obs.interruptLog, uintOp(inst.a))
                                           ELSE obs.interruptLog,
                          last |-> LastOf(inst), lastNext |-> NextBlock]
               /\ UNCHANGED << phase, fault >>

\* what is recorded of a block entered with pending spills: whether every
\* predecessor is the block before it, and its useCount
NoEntry == [predsOnlyCurr |-> TRUE, useCount |-> 0, spills |-> FALSE]
Entry(spills, curr, preds, useCount) ==
  IF spills = {} THEN NoEntry
  ELSE [predsOnlyCurr |-> \A q \in preds : q = curr, useCount |-> useCount,
        spills |-> TRUE]

\* the driver ends the current block: finishBlock(curr, next), then the next
\* block in emission order (the dummy block after the last one)
FinishBlock ==
  /\ phase = "lowering"
  /\ blk.done
  /\ \E preds \in (IF blk.curr = NumBlocks THEN {{}} ELSE SUBSET Blocks),
        useCount \in (IF blk.curr = NumBlocks THEN {0} ELSE 1..2) :
       LET f == finishBlock(regs.spills, blk.curr, preds, useCount)
       IN  IF f # ""
           THEN /\ phase' = "abort"
                /\ fault' = f
                /\ UNCHANGED blk
           ELSE /\ fault' = fault
                /\ IF blk.curr = NumBlocks
                   THEN phase' = "blocksDone" /\ UNCHANGED blk
                   ELSE /\ phase' = phase
                        /\ blk' = [blk EXCEPT !.curr = NextBlock, !.done = FALSE,
                                     !.start = blk.index,
                                     !.entry = Entry(regs.spills, blk.curr, preds, useCount)]
  /\ UNCHANGED << instructions, regs, mach, build, exitHandlers, exitHandlerMap,
                  interruptHandlers, obs >>

FinishFunction ==
  /\ phase = "blocksDone"
  /\ LET f == finishFunctionAssert(exitHandlers)
     IN  IF f # ""
         THEN phase' = "abort" /\ fault' = f /\ UNCHANGED build
         ELSE /\ phase' = "finished"
              /\ fault' = fault
              /\ build' = [build EXCEPT !.code = finishFunction(interruptHandlers, exitHandlers)]
  /\ UNCHANGED << instructions, regs, mach, exitHandlers, exitHandlerMap,
                  interruptHandlers, blk, obs >>

\* ------------------------------------------------ instruction streams
VmRegOps == {Op("VmReg", r) : r \in 1..NumVmRegs}
BlockOps == {Op("Block", b) : b \in Blocks}
ExitOps == {Op("VmExit", pc) : pc \in Pcs \cup {kVmExitEntryGuardPc}}
Targets == {UndefOp} \cup ExitOps \cup BlockOps

\* the values lowered so far whose last use is still to come
Live(kind) ==
  {i \in 1..blk.index : instructions[i].kind = kind /\ instructions[i].lastUse = Later}
LiveOps(kind) == {Op("Inst", i) : i \in Live(kind)}

I1(cmd, a) == I(cmd, a, NoneOp, NoneOp, NoneOp, NoneOp)
I2(cmd, a, b) == I(cmd, a, b, NoneOp, NoneOp, NoneOp)

\* the order of the next uses, and the value the tracker restores
FarChoices ==
  {kInvalidInstIdx} \cup {regs.users[r] : r \in Regs}
EagerChoices ==
  {kInvalidInstIdx} \cup {s.instIdx : s \in regs.spills}

LoadInsts ==
  {I1("LOAD_INT", a) : a \in VmRegOps}
    \cup {I1("LOAD_POINTER", a) : a \in VmRegOps \cup LiveOps("pointer")}

ValueInsts ==
  LoadInsts
    \cup {I1("STRING_LEN", a) : a \in LiveOps("pointer")}
    \cup {I2("BITLSHIFT_UINT", a, Op("Constant", 1)) : a \in VmRegOps \cup LiveOps("int")}

InterruptInsts == {I1("INTERRUPT", Op("Constant", pc)) : pc \in {0, MaxPc}}

BlockJumpInsts == {I1("JUMP", a) : a \in BlockOps}

\* the instructions of SpecSpill: pointers are loaded, spilled at interrupts
\* and under register pressure, and compared at a block end
SpillInsts ==
  {I1("LOAD_POINTER", a) : a \in VmRegOps}
    \cup {I1("INTERRUPT", Op("Constant", 0))}

SpillEndInsts ==
  BlockJumpInsts
    \cup {I("JUMP_EQ_POINTER", a, b, Op("Block", 1), Op("Block", NumBlocks), NoneOp) :
            a \in LiveOps("pointer"), b \in LiveOps("pointer")}

JumpInsts == {I1("JUMP", a) : a \in Targets}

GuardInsts ==
  {I("CHECK_TAG", a, Op("Constant", 1), c, NoneOp, NoneOp) :
      a \in VmRegOps, c \in Targets}
    \cup {I1("CHECK_SAFE_ENV", a) : a \in Targets}

PointerInsts == {I1("LOAD_POINTER", Op("VmReg", 1))}

\* every guard opcode, with every kind of failure target
CheckInsts ==
  {I("CHECK_TAG", Op("VmReg", 1), Op("Constant", 1), c, NoneOp, NoneOp) : c \in Targets}
    \cup {I1("CHECK_SAFE_ENV", a) : a \in Targets}
    \cup {I("CHECK_TRUTHY", a, Op("VmReg", 1), c, NoneOp, NoneOp) :
            a \in {Op("VmReg", 1), Op("Constant", LUA_TBOOLEAN)}, c \in Targets}
    \cup {I2(cmd, a, b) :
            cmd \in {"CHECK_READONLY", "CHECK_NO_METATABLE", "CHECK_NODE_NO_NEXT",
                     "CHECK_NODE_VALUE"},
            a \in LiveOps("pointer"), b \in Targets}
    \cup {I("CHECK_ARRAY_SIZE", a, Op("Constant", 1), c, NoneOp, NoneOp) :
            a \in LiveOps("pointer"), c \in Targets}
    \cup {I("CHECK_SLOT_MATCH", a, Op("VmConst", 0), c, NoneOp, NoneOp) :
            a \in LiveOps("pointer"), c \in Targets}

\* the instructions of SpecArith: values are loaded, then computed with
OperandInsts ==
  {I1(cmd, Op("VmReg", 1)) : cmd \in {"LOAD_INT", "LOAD_TAG", "LOAD_DOUBLE"}}

ArithInsts ==
  {I2("NOT_ANY", a, b) :
      a \in LiveOps("tag") \cup {Op("Constant", LUA_TBOOLEAN)},
      b \in LiveOps("int") \cup {Op("Constant", 0), Op("Constant", 1)}}
    \cup {I1(cmd, a) : cmd \in {"BITCOUNTLZ_UINT", "BITCOUNTRZ_UINT"}, a \in LiveOps("int")}
    \cup {I2("ADD_INT", a, b) :
            a \in LiveOps("int"),
            b \in LiveOps("int") \cup {Op("Constant", 1), Op("Constant", 5)}}
    \cup {I2("ADD_INT", Op("Constant", 5), b) : b \in LiveOps("int")}
    \cup {I2("SUB_INT", a, b) :
            a \in LiveOps("int"), b \in {Op("Constant", 1), Op("Constant", 5)}}
    \cup {I2("BITAND_UINT", a, b) :
            a \in LiveOps("int") \cup {Op("Constant", 5)},
            b \in LiveOps("int") \cup {Op("Constant", -1)}}
    \cup {I2(cmd, a, b) :
            cmd \in {"ADD_NUM", "MOD_NUM"},
            a \in LiveOps("double") \cup {Op("Constant", 7)},
            b \in LiveOps("double") \cup {Op("Constant", 2)}}

\* what a run of the code is given: va and vb are the values of the operands
\* a and b when they are IR values, m1 and m2 what it finds in memory, ret
\* what the function it calls returns
RunInput(va, vb, m1, m2, ret) == [va |-> va, vb |-> vb, m1 |-> m1, m2 |-> m2, ret |-> ret]

IntWords == {Zero, Word(5), LowOnes(32)}
BitWords == {Zero, Word(1), Word(6), BitAt(16), BitAt(31), LowOnes(32)}
TagWords == {Word(LUA_TNIL), Word(LUA_TBOOLEAN), Word(3)}
ValueWords == {Zero, Word(1), BitAt(31)}

\* the instructions of SpecOperands: values are loaded and spilled at an
\* interrupt, then named by operands of every kind, among them instructions
\* that have no value or whose value is dead
OperandSourceInsts ==
  {I1(cmd, Op("VmReg", 1)) : cmd \in {"LOAD_INT", "LOAD_TAG", "LOAD_DOUBLE"}}
    \cup {I1("INTERRUPT", Op("Constant", 0))}

AnyInstOps(kind) ==
  {Op("Inst", i) : i \in {j \in 1..blk.index : instructions[j].kind \in {kind, "none"}}}

OtherKinds ==
  {NoneOp, UndefOp, Op("Constant", 1), Op("Condition", 1), Op("Block", 1), Op("VmReg", 1),
   Op("VmConst", 1), Op("VmUpvalue", 1), Op("VmExit", 1)}

OperandUseInsts ==
  {I("CHECK_TAG", a, Op("Constant", 1), Op("Block", 1), NoneOp, NoneOp) :
      a \in AnyInstOps("tag") \cup OtherKinds}
    \cup {I2("BITAND_UINT", a, b) :
            a \in AnyInstOps("int") \cup {Op("Constant", 5)},
            b \in AnyInstOps("int") \cup OtherKinds}
    \cup {I2("ADD_NUM", a, b) :
            a \in AnyInstOps("double") \cup {Op("Constant", 5)},
            b \in AnyInstOps("double") \cup OtherKinds}

\* the instructions of SpecTable: table pointers are loaded, then used
TableOperandInsts == {I1("LOAD_POINTER", Op("VmReg", 1))}

TableInsts ==
  {I2("GET_HASH_NODE_ADDR", a, b) :
      a \in LiveOps("pointer"), b \in {Op("Constant", 5), Op("Constant", -1)}}
    \cup {I("TRY_CALL_FASTGETTM", a, Op("Constant", 3), c, NoneOp, NoneOp) :
            a \in LiveOps("pointer"), c \in BlockOps}
    \cup {I("BARRIER_TABLE_FORWARD", a, Op("VmReg", 1), c, NoneOp, NoneOp) :
            a \in LiveOps("pointer"), c \in {UndefOp, Op("Constant", 6)}}
    \cup {I1("CLOSE_UPVALS", Op("VmReg", 1))}

\* addresses of a table, of its metatable, of the tag method found
TableAt == Word(4096)
MetatableAt == Word(8192)
MethodAt == Word(12288)
\* node arrays low and high in the address space, and the values of lsizenode
NodeBases == {Word(64), bitOr(BitAt(40), LowOnes(36))}
NodeSizes == {Zero, Word(1), Word(3), Word(31)}
\* tmcache bytes with and without the bit of the tag method 3
CacheBytes == {Zero, Word(1), Word(8), Word(9)}

RunInputs(inst) ==
  CASE inst.cmd = "GET_HASH_NODE_ADDR" ->
         {RunInput(TableAt, Zero, m1, m2, Zero) : m1 \in NodeBases, m2 \in NodeSizes}
    [] inst.cmd = "TRY_CALL_FASTGETTM" ->
         {RunInput(TableAt, Zero, m1, m2, ret) :
            m1 \in {Zero, MetatableAt}, m2 \in CacheBytes, ret \in {Zero, MethodAt}}
    [] inst.cmd = "BARRIER_TABLE_FORWARD" ->
         {RunInput(TableAt, vb, MethodAt, m2, Zero) :
            vb \in {Word(1), Word(4)}, m2 \in {Zero, Word(4)}}
    [] inst.cmd = "CLOSE_UPVALS" ->
         {RunInput(Zero, Zero, m1, m2, Zero) :
            m1 \in {Zero, MetatableAt}, m2 \in {Word(512), Word(2048)}}
    [] inst.cmd = "NOT_ANY" ->
         {RunInput(va, vb, Zero, Zero, Zero) : va \in TagWords, vb \in ValueWords}
    [] inst.cmd \in {"BITCOUNTLZ_UINT", "BITCOUNTRZ_UINT"} ->
         {RunInput(va, Zero, Zero, Zero, Zero) : va \in BitWords}
    [] inst.cmd \in {"ADD_NUM", "MOD_NUM"} ->
         {RunInput(va, vb, Zero, Zero, Zero) : va \in {Fix(5), Fix(7)}, vb \in {Fix(2), Fix(3)}}
    [] OTHER ->
         {RunInput(va, vb, Zero, Zero, Zero) : va \in IntWords, vb \in IntWords}

\* the instructions of SpecStore: two doubles are loaded from VM registers,
\* two values are added, and a value or a constant is stored to a VM register
StoreSteps == << "LOAD_DOUBLE", "LOAD_DOUBLE", "ADD_NUM", "STORE_DOUBLE" >>
StoreRegs == 1..(NumVmRegs + 2)
StoreRegOps == {Op("VmReg", r) : r \in StoreRegs}

StoreSourceInsts == {I1("LOAD_DOUBLE", a) : a \in StoreRegOps}

StoreInsts ==
  {I2("ADD_NUM", a, b) : a \in LiveOps("double"), b \in LiveOps("double")}
    \cup {I2("STORE_DOUBLE", a, b) :
            a \in StoreRegOps, b \in LiveOps("double") \cup {Op("Constant", 2)}}

\* the number n / 4
Quarters(n) == Dbl(n < 0, ((IF n < 0 THEN -n ELSE n) * DoubleUnit) \div 4)

\* what the VM registers hold before the code runs
StoredDoubles == {Quarters(5), Quarters(10)}
TextInputs == [StoreRegs -> StoredDoubles]

\* the instructions of SpecNum: doubles are loaded, then rounded and divided
\* with remainder, as values, VM registers and constants
NumOperandInsts == {I1("LOAD_DOUBLE", Op("VmReg", 1))}

NumInsts ==
  {I1("ROUND_NUM", a) : a \in LiveOps("double") \cup VmRegOps \cup {Op("Constant", 3)}}
    \cup {I2("MOD_NUM", a, b) :
            a \in LiveOps("double") \cup {Op("Constant", 7), Op("Constant", -7)},
            b \in LiveOps("double") \cup VmRegOps
                   \cup {Op("Constant", 3), Op("Constant", -3)}}

\* every double of the model up to the magnitude 2^Precision
Doubles ==
  {Dbl(neg, n) : neg \in BOOLEAN,
                 n \in {k \in 0..(DoubleUnit * 2 ^ Precision) : isDouble(k)}}

\* the operands of a division with remainder: whole numbers, fractions and
\* the smallest doubles, of either sign
Dividends ==
  {Dbl(neg, n) : neg \in BOOLEAN,
                 n \in {0, 1, (3 * DoubleUnit) \div 4, 5 * DoubleUnit, (11 * DoubleUnit) \div 2,
                        6 * DoubleUnit, 7 * DoubleUnit}}
Divisors ==
  {Dbl(neg, n) : neg \in BOOLEAN,
                 n \in {1, (3 * DoubleUnit) \div 4, 2 * DoubleUnit, 3 * DoubleUnit}}

\* a value operand holds va or vb, a VM register m1
NumInputs(inst) ==
  IF inst.cmd = "ROUND_NUM"
  THEN {RunInput(x, Zero, x, Zero, Zero) : x \in Doubles}
  ELSE {RunInput(va, vb, vb, Zero, Zero) : va \in Dividends, vb \in Divisors}

Conditions == {"Less", "NotEqual"}

TwoWayInsts ==
  {I("JUMP_EQ_TAG", a, b, c, d, NoneOp) :
      a \in VmRegOps \cup {Op("Constant", 1)}, b \in LiveOps("int") \cup {Op("Constant", 0)},
      c \in BlockOps, d \in BlockOps}
    \cup {I(cmd, a, b, c, d, NoneOp) :
            cmd \in {"JUMP_EQ_INT", "JUMP_LT_INT", "JUMP_GE_UINT"},
            a \in LiveOps("int"), b \in {Op("Constant", 0), Op("Constant", 1)},
            c \in BlockOps, d \in BlockOps}
    \cup {I("JUMP_EQ_POINTER", a, b, c, d, NoneOp) :
            a \in LiveOps("pointer"), b \in LiveOps("pointer"),
            c \in BlockOps, d \in BlockOps}
    \cup {I("JUMP_CMP_NUM", a, b, Op("Condition", cond), d, e) :
            a \in VmRegOps, b \in VmRegOps \cup {Op("Constant", 0)},
            cond \in Conditions, d \in BlockOps, e \in BlockOps}

\* lowerInst on an instruction of the menu, for every choice of the operands
\* that see their last use, of the furthest next use and of the value the
\* tracker restores
LowerValue ==
  /\ blk.index < MaxRegInsts
  /\ \E inst \in ValueInsts : \E dying \in SUBSET InstOperands(inst) :
       \E far \in FarChoices : \E eager \in EagerChoices \ InstOperands(inst) :
         LowerInst(inst, dying, far, eager)
LowerLoad ==
  /\ blk.index < MaxBranchInsts
  /\ \E inst \in LoadInsts : \E dying \in SUBSET InstOperands(inst) :
       \E far \in FarChoices : \E eager \in {kInvalidInstIdx} \ InstOperands(inst) :
         LowerInst(inst, dying, far, eager)
LowerInterrupt ==
  /\ blk.index < MaxRegInsts
  /\ \E inst \in InterruptInsts : \E dying \in SUBSET InstOperands(inst) :
       \E far \in FarChoices : \E eager \in EagerChoices \ InstOperands(inst) :
         LowerInst(inst, dying, far, eager)
LowerBlockJump ==
  \E inst \in BlockJumpInsts : \E dying \in SUBSET InstOperands(inst) :
       \E far \in FarChoices : \E eager \in {kInvalidInstIdx} \ InstOperands(inst) :
         LowerInst(inst, dying, far, eager)
LowerSpill ==
  /\ blk.index < MaxRegInsts
  /\ \E inst \in SpillInsts : \E dying \in SUBSET InstOperands(inst) :
       \E far \in FarChoices : \E eager \in {kInvalidInstIdx} \ InstOperands(inst) :
         LowerInst(inst, dying, far, eager)
LowerSpillEnd ==
  \E inst \in SpillEndInsts : \E dying \in SUBSET InstOperands(inst) :
       \E far \in FarChoices : \E eager \in {kInvalidInstIdx} \ InstOperands(inst) :
         LowerInst(inst, dying, far, eager)
LowerJump ==
  /\ blk.index < MaxExitInsts
  /\ \E inst \in JumpInsts : \E dying \in SUBSET InstOperands(inst) :
       \E far \in FarChoices : \E eager \in {kInvalidInstIdx} \ InstOperands(inst) :
         LowerInst(inst, dying, far, eager)
LowerGuard ==
  /\ blk.index < MaxExitInsts
  /\ \E inst \in GuardInsts : \E dying \in SUBSET InstOperands(inst) :
       \E far \in FarChoices : \E eager \in {kInvalidInstIdx} \ InstOperands(inst) :
         LowerInst(inst, dying, far, eager)
LowerPointer ==
  /\ blk.index < MaxGuardInsts
  /\ \E inst \in PointerInsts : \E dying \in SUBSET InstOperands(inst) :
       \E far \in FarChoices : \E eager \in {kInvalidInstIdx} \ InstOperands(inst) :
         LowerInst(inst, dying, far, eager)
LowerCheck ==
  /\ blk.index < MaxGuardInsts
  /\ \E inst \in CheckInsts : \E dying \in SUBSET InstOperands(inst) :
       \E far \in FarChoices : \E eager \in {kInvalidInstIdx} \ InstOperands(inst) :
         LowerInst(inst, dying, far, eager)
LowerGuardEnd ==
  /\ blk.index < MaxGuardInsts
  /\ \E inst \in JumpInsts : \E dying \in SUBSET InstOperands(inst) :
       \E far \in FarChoices : \E eager \in {kInvalidInstIdx} \ InstOperands(inst) :
         LowerInst(inst, dying, far, eager)
\* ---------------------------------------------- running the emitted code
\* what a register holds that the lowering knows nothing about
JunkWord == [i \in Bit |-> i % 2 = 0]

\* the value the run gives the IR value i: that of the operand it is, and a
\* value of its own otherwise
ValOf(in, inst, i) ==
  IF inst.a = Op("Inst", i) THEN in.va
  ELSE IF inst.b = Op("Inst", i) THEN in.vb
  ELSE Word(64 + i)

\* the value of an operand of the instruction
OperandWord(in, inst, op) ==
  IF op.kind = "Inst" THEN ValOf(in, inst, op.index) ELSE WordOfInt(intOp(op))

\* the machine before the code of the last step, and what is outside it
StartMachine(in, inst) ==
  Machine([r \in Regs |-> IF obs.pre.reg[r] = Junk THEN JunkWord
                          ELSE ValOf(in, inst, obs.pre.reg[r])],
          [q \in SpillArea |-> IF obs.pre.slot[q] = Junk THEN JunkWord
                               ELSE ValOf(in, inst, obs.pre.slot[q])],
          FALSE, FALSE, FALSE)

RunEnv(in) ==
  [heap |-> (<< in.va, "node" >> :> in.m1) @@ (<< in.va, "lsizenode" >> :> in.m2)
              @@ (<< in.va, "metatable" >> :> in.m1) @@ (<< in.m1, "tmcache" >> :> in.m2)
              @@ (<< in.va, "marked" >> :> in.m2) @@ (<< in.m1, "marked" >> :> in.vb)
              @@ (<< Zero, "openupval" >> :> in.m1) @@ (<< in.m1, "v" >> :> in.m2),
   vm |-> [o \in VmRegOps |-> in.m1],
   ret |-> in.ret]

\* the values lowered before the last instruction that are used after it
LiveAfter ==
  {i \in 1..(blk.index - 1) :
     instructions[i].kind # "none" /\ instructions[i].lastUse = Later}

\* what the place the lowering keeps value i in holds on the machine m
Kept(m, i) ==
  IF instructions[i].regX64 # noreg THEN m.reg[instructions[i].regX64]
  ELSE IF \E sp \in regs.spills : sp.instIdx = i
  THEN m.slot[(CHOOSE sp \in regs.spills : sp.instIdx = i).stackSlot]
  ELSE Wild

\* what is kept of the run m: how it stopped, the result register, the live
\* values it lost
Outcome(in, inst, m) ==
  [done |-> TRUE, in |-> in, halt |-> m.halt, left |-> m.left, calls |-> m.calls,
   undef |-> m.undef,
   out |-> IF instructions[blk.index].regX64 = noreg THEN Wild
           ELSE m.reg[instructions[blk.index].regX64],
   stack |-> m.stack, mem |-> m.mem,
   lost |-> {i \in LiveAfter : Kept(m, i) # ValOf(in, inst, i)}]

\* the code of the last step run on a machine that holds the input
Execute ==
  /\ phase = "lowering"
  /\ IsComputed(obs.last.cmd)
  /\ ~obs.run.done
  /\ \E in \in RunInputs(obs.last) :
       obs' = [obs EXCEPT !.run = Outcome(in, obs.last,
                                          runCode(build.code, RunEnv(in),
                                                  StartMachine(in, obs.last)))]
  /\ UNCHANGED << instructions, regs, mach, build, exitHandlers, exitHandlerMap,
                  interruptHandlers, blk, phase, fault >>

\* the code of all steps so far run on a machine whose VM registers hold
\* the input
TextMachine ==
  Machine([r \in Regs |-> JunkWord], [q \in SpillArea |-> JunkWord], FALSE, FALSE, FALSE)

TextEnv(in) ==
  [heap |-> NoWrites,
   vm |-> [o \in StoreRegOps |-> in[o.index]],
   tt |-> [o \in StoreRegOps |-> Word(3)],
   ret |-> Zero]

TextOutcome(in, m) ==
  [done |-> TRUE, in |-> in, halt |-> m.halt, undef |-> m.undef,
   stack |-> m.stack, mem |-> m.mem]

ExecuteText ==
  /\ phase = "lowering"
  /\ obs.whole
  /\ ~obs.run.done
  /\ Len(obs.program) > 0
  /\ obs.program[Len(obs.program)].cmd = "STORE_DOUBLE"
  /\ \E in \in TextInputs :
       obs' = [obs EXCEPT !.run = TextOutcome(in, runCode(obs.text, TextEnv(in), TextMachine))]
  /\ UNCHANGED << instructions, regs, mach, build, exitHandlers, exitHandlerMap,
                  interruptHandlers, blk, phase, fault >>

\* the code of the last step run on doubles of every sign and size
ExecuteNum ==
  /\ phase = "lowering"
  /\ obs.last.cmd \in {"ROUND_NUM", "MOD_NUM"}
  /\ ~obs.run.done
  /\ \E in \in NumInputs(obs.last) :
       obs' = [obs EXCEPT !.run = Outcome(in, obs.last,
                                          runCode(build.code, RunEnv(in),
                                                  StartMachine(in, obs.last)))]
  /\ UNCHANGED << instructions, regs, mach, build, exitHandlers, exitHandlerMap,
                  interruptHandlers, blk, phase, fault >>

\* the instructions of SpecCalls: values are loaded and stay live while
\* helpers of the runtime are called
CallSourceInsts ==
  {I1("LOAD_POINTER", Op("VmReg", 1)), I1("LOAD_DOUBLE", Op("VmReg", 1))}

CallInsts ==
  {I("CMP_ANY", a, b, Op("Condition", cond), NoneOp, NoneOp) :
      a \in VmRegOps, b \in VmRegOps, cond \in {"LessEqual", "Less", "Equal", "NotEqual"}}
    \cup {I2("GET_IMPORT", a, Op("Constant", 1)) : a \in VmRegOps}
    \cup {I2("CONCAT", a, Op("Constant", 2)) : a \in VmRegOps}

CallEndInsts ==
  {I("FORGLOOP_FALLBACK", a, Op("Constant", 2), c, d, NoneOp) :
      a \in VmRegOps, c \in BlockOps, d \in BlockOps}
    \cup {I("FORGPREP_XNEXT_FALLBACK", Op("Constant", 1), b, c, NoneOp, NoneOp) :
            b \in VmRegOps, c \in BlockOps}

\* the instructions of SpecAsserts: a pointer is loaded and later consumed
\* by a guard, interrupts are checked, and the bytecode's own code is used
HeldInsts == {I1("LOAD_POINTER", Op("VmReg", 1))}
ConsumerInsts == {I2("CHECK_READONLY", a, Op("Block", 1)) : a \in LiveOps("pointer")}
FallbackInsts ==
  {I("SETLIST", Op("Constant", 0), Op("VmReg", 1), Op("VmReg", 1), Op("Constant", 1),
     Op("Constant", 1)),
   I("CALL", Op("VmReg", 1), Op("Constant", 1), Op("Constant", 1), NoneOp, NoneOp),
   I("RETURN", Op("VmReg", 1), Op("Constant", 1), NoneOp, NoneOp, NoneOp)}
    \cup {I("FORGLOOP", Op("VmReg", 1), Op("Constant", 1), Op("Block", 1), d, NoneOp) :
            d \in BlockOps}

LowerHeld ==
  /\ blk.index < MaxFallbackInsts
  /\ \E inst \in HeldInsts : \E dying \in SUBSET InstOperands(inst) :
       \E far \in FarChoices : \E eager \in {kInvalidInstIdx} \ InstOperands(inst) :
         LowerInst(inst, dying, far, eager)
LowerConsumer ==
  /\ blk.index < MaxFallbackInsts
  /\ \E inst \in ConsumerInsts : \E dying \in SUBSET InstOperands(inst) :
       \E far \in FarChoices : \E eager \in {kInvalidInstIdx} \ InstOperands(inst) :
         LowerInst(inst, dying, far, eager)
LowerCheckpoint ==
  /\ blk.index < MaxFallbackInsts
  /\ \E inst \in InterruptInsts : \E dying \in SUBSET InstOperands(inst) :
       \E far \in FarChoices : \E eager \in {kInvalidInstIdx} \ InstOperands(inst) :
         LowerInst(inst, dying, far, eager)
LowerFallback ==
  /\ \E inst \in FallbackInsts : \E dying \in SUBSET InstOperands(inst) :
       \E far \in FarChoices : \E eager \in {kInvalidInstIdx} \ InstOperands(inst) :
         LowerInst(inst, dying, far, eager)
LowerCallSource ==
  /\ blk.index < MaxCallInsts
  /\ \E inst \in CallSourceInsts : \E dying \in SUBSET InstOperands(inst) :
       \E far \in FarChoices : \E eager \in {kInvalidInstIdx} \ InstOperands(inst) :
         LowerInst(inst, dying, far, eager)
LowerCall ==
  /\ blk.index < MaxCallInsts
  /\ \E inst \in CallInsts : \E dying \in SUBSET InstOperands(inst) :
       \E far \in FarChoices : \E eager \in {kInvalidInstIdx} \ InstOperands(inst) :
         LowerInst(inst, dying, far, eager)
LowerCallEnd ==
  /\ \E inst \in CallEndInsts : \E dying \in SUBSET InstOperands(inst) :
       \E far \in FarChoices : \E eager \in {kInvalidInstIdx} \ InstOperands(inst) :
         LowerInst(inst, dying, far, eager)
LowerNumOperand ==
  /\ blk.index < MaxNumInsts
  /\ ~obs.run.done
  /\ \E inst \in NumOperandInsts : \E dying \in SUBSET InstOperands(inst) :
       \E far \in FarChoices : \E eager \in {kInvalidInstIdx} \ InstOperands(inst) :
         LowerInst(inst, dying, far, eager)
LowerNum ==
  /\ blk.index < MaxNumInsts
  /\ ~obs.run.done
  /\ \E inst \in NumInsts : \E dying \in SUBSET InstOperands(inst) :
       \E far \in FarChoices : \E eager \in {kInvalidInstIdx} \ InstOperands(inst) :
         LowerInst(inst, dying, far, eager)
LowerStoreSource ==
  /\ blk.index < Len(StoreSteps)
  /\ ~obs.run.done
  /\ \E inst \in {i \in StoreSourceInsts : i.cmd = StoreSteps[blk.index + 1]} : \E dying \in SUBSET InstOperands(inst) :
       \E far \in FarChoices : \E eager \in {kInvalidInstIdx} \ InstOperands(inst) :
         LowerInst(inst, dying, far, eager)
LowerStore ==
  /\ blk.index < Len(StoreSteps)
  /\ ~obs.run.done
  /\ \E inst \in {i \in StoreInsts : i.cmd = StoreSteps[blk.index + 1]} : \E dying \in SUBSET InstOperands(inst) :
       \E far \in FarChoices : \E eager \in {kInvalidInstIdx} \ InstOperands(inst) :
         LowerInst(inst, dying, far, eager)
LowerOperand ==
  /\ blk.index < MaxArithInsts
  /\ ~obs.run.done
  /\ \E inst \in OperandInsts : \E dying \in SUBSET InstOperands(inst) :
       \E far \in FarChoices : \E eager \in {kInvalidInstIdx} \ InstOperands(inst) :
         LowerInst(inst, dying, far, eager)
LowerArith ==
  /\ blk.index < MaxArithInsts
  /\ ~obs.run.done
  /\ \E inst \in ArithInsts : \E dying \in SUBSET InstOperands(inst) :
       \E far \in FarChoices : \E eager \in {kInvalidInstIdx} \ InstOperands(inst) :
         LowerInst(inst, dying, far, eager)
LowerSource ==
  /\ blk.index < MaxOperandInsts
  /\ \E inst \in OperandSourceInsts : \E dying \in SUBSET InstOperands(inst) :
       \E far \in FarChoices : \E eager \in {kInvalidInstIdx} \ InstOperands(inst) :
         LowerInst(inst, dying, far, eager)
LowerUse ==
  /\ blk.index < MaxOperandInsts
  /\ \E inst \in OperandUseInsts : \E dying \in SUBSET InstOperands(inst) :
       \E far \in FarChoices : \E eager \in {kInvalidInstIdx} \ InstOperands(inst) :
         LowerInst(inst, dying, far, eager)
LowerTableOperand ==
  /\ blk.index < MaxTableInsts
  /\ ~obs.run.done
  /\ \E inst \in TableOperandInsts : \E dying \in SUBSET InstOperands(inst) :
       \E far \in FarChoices : \E eager \in {kInvalidInstIdx} \ InstOperands(inst) :
         LowerInst(inst, dying, far, eager)
LowerTable ==
  /\ blk.index < MaxTableInsts
  /\ ~obs.run.done
  /\ \E inst \in TableInsts : \E dying \in SUBSET InstOperands(inst) :
       \E far \in FarChoices : \E eager \in {kInvalidInstIdx} \ InstOperands(inst) :
         LowerInst(inst, dying, far, eager)
LowerTwoWay ==
  /\ blk.index < MaxBranchInsts
  /\ \E inst \in TwoWayInsts : \E dying \in SUBSET InstOperands(inst) :
       \E far \in FarChoices : \E eager \in {kInvalidInstIdx} \ InstOperands(inst) :
         LowerInst(inst, dying, far, eager)

\* register allocation: values, interrupts and block ends
NextRegs == LowerValue \/ LowerInterrupt \/ LowerBlockJump \/ FinishBlock \/ FinishFunction
SpecRegs == Init /\ [][NextRegs]_vars

\* the spill budget: loads, interrupts and block ends that use the values
NextSpill == LowerSpill \/ LowerSpillEnd \/ FinishBlock \/ FinishFunction
SpecSpill == Init /\ [][NextSpill]_vars

\* guards and jumps to VM exits
NextExits == LowerGuard \/ LowerJump \/ FinishBlock \/ FinishFunction
SpecExits == Init /\ [][NextExits]_vars

\* two-way branches
NextBranch == LowerLoad \/ LowerTwoWay \/ FinishBlock
SpecBranch == Init /\ [][NextBranch]_vars

\* every guard opcode, and the jumps
NextGuards == LowerPointer \/ LowerCheck \/ LowerGuardEnd \/ FinishBlock
SpecGuards == Init /\ [][NextGuards]_vars

\* integer values computed from loaded ones, and the code run
NextArith == LowerOperand \/ LowerArith \/ Execute
SpecArith == Init /\ [][NextArith]_vars

\* table pointers loaded and used, and the code run
NextTable == LowerTableOperand \/ LowerTable \/ Execute
SpecTable == Init /\ [][NextTable]_vars

\* operands of every kind resolved
NextOperands == LowerSource \/ LowerUse
SpecOperands == Init /\ [][NextOperands]_vars

\* doubles rounded and divided with remainder, and the code run
NextNum == LowerNumOperand \/ LowerNum \/ ExecuteNum
SpecNum == Init /\ [][NextNum]_vars

\* doubles loaded, added and stored, and the code of all steps run
NextStore == LowerStoreSource \/ LowerStore \/ ExecuteText
SpecStore == InitWhole /\ [][NextStore]_vars

\* interrupts, guards and exits of one function, lowered to the end
NextFinish == LowerInterrupt \/ LowerGuard \/ LowerJump \/ FinishBlock \/ FinishFunction
SpecFinish == Init /\ [][NextFinish]_vars

\* the bytecode's own code after loads, guards, interrupts and block starts
NextAsserts == LowerHeld \/ LowerConsumer \/ LowerCheckpoint \/ LowerFallback
                 \/ LowerBlockJump \/ FinishBlock
SpecAsserts == Init /\ [][NextAsserts]_vars

\* calls of runtime helpers, between loads and at block ends
NextCalls == LowerCallSource \/ LowerCall \/ LowerCallEnd \/ FinishBlock
SpecCalls == Init /\ [][NextCalls]_vars

\* the instructions of SpecCoverage: integers are loaded and stay live while
\* the hits of an instruction are counted
CoverageSourceInsts == {I1("LOAD_INT", Op("VmReg", 1))}
CoverageInsts == {I1("COVERAGE", Op("Constant", pc)) : pc \in 0..MaxPc}

\* the word of an instruction: its opcode in the low byte, the hits above
InsnWord(hits, op) ==
  [i \in Bit |-> IF i < 8 THEN (op \div (2 ^ i)) % 2 = 1
                 ELSE i < 32 /\ (hits \div (2 ^ (i - 8))) % 2 = 1]
\* counters near zero, at the limit and above it, opcodes of every shape
CoverageHits == {0, 1, 255, 2 ^ 23 - 2, 2 ^ 23 - 1, 2 ^ 23, 2 ^ 24 - 1}
OpcodeBytes == {0, 69, 255}
CoverageInputs ==
  {RunInput(Zero, Zero, InsnWord(hits, op), Zero, Zero) :
     hits \in CoverageHits, op \in OpcodeBytes}

\* where the code of the function is, and the word of the instruction at pc
CodeAt == Word(16384)
InsnAt(pc) == << wordAdd(CodeAt, Word(pc * sizeofInstruction), 64), "insn" >>

CoverageEnv(in, pc) ==
  [heap |-> (<< Zero, "sCode" >> :> CodeAt) @@ (InsnAt(pc) :> in.m1),
   vm |-> [o \in VmRegOps |-> in.m2],
   ret |-> in.ret]

LowerCoverageSource ==
  /\ blk.index < MaxCoverageInsts
  /\ ~obs.run.done
  /\ \E inst \in CoverageSourceInsts : \E dying \in SUBSET InstOperands(inst) :
       \E far \in FarChoices : \E eager \in {kInvalidInstIdx} \ InstOperands(inst) :
         LowerInst(inst, dying, far, eager)
LowerCoverage ==
  /\ blk.index < MaxCoverageInsts
  /\ ~obs.run.done
  /\ \E inst \in CoverageInsts : \E dying \in SUBSET InstOperands(inst) :
       \E far \in FarChoices : \E eager \in {kInvalidInstIdx} \ InstOperands(inst) :
         LowerInst(inst, dying, far, eager)

\* the code of the last step run on the word of the instruction
ExecuteCoverage ==
  /\ phase = "lowering"
  /\ obs.last.cmd = "COVERAGE"
  /\ ~obs.run.done
  /\ \E in \in CoverageInputs :
       obs' = [obs EXCEPT !.run = Outcome(in, obs.last,
                                          runCode(build.code,
                                                  CoverageEnv(in, uintOp(obs.last.a)),
                                                  StartMachine(in, obs.last)))]
  /\ UNCHANGED << instructions, regs, mach, build, exitHandlers, exitHandlerMap,
                  interruptHandlers, blk, phase, fault >>

NextCoverage == LowerCoverageSource \/ LowerCoverage \/ ExecuteCoverage
SpecCoverage == Init /\ [][NextCoverage]_vars

\* temporaries: shifts, table helpers and calls between loads and interrupts
NextScratch == LowerValue \/ LowerTable \/ LowerCall \/ LowerInterrupt
SpecScratch == Init /\ [][NextScratch]_vars

Next == NextRegs \/ NextSpill \/ NextExits \/ NextBranch \/ NextGuards \/ NextArith
          \/ NextTable \/ NextOperands \/ NextStore \/ NextNum \/ NextCalls
          \/ NextFinish \/ NextAsserts \/ NextScratch \/ NextCoverage
Spec == Init /\ [][Next]_vars

\* ----------------------------------------------------------- VM exits
\* the exit edges lowered so far whose pc is not the entry guard's, and the
\* pcs they name
PcEdges == {e \in obs.exitEdges : e.pc # kVmExitEntryGuardPc}
GuardEdges == {e \in obs.exitEdges : e.pc = kVmExitEntryGuardPc}
EdgePcs == {e.pc : e \in PcEdges}
HandlersOf(pc) == {k \in 1..Len(exitHandlers) : exitHandlers[k].pcpos = pc}

\* C1: over any sequence of lowered guards and jumps to VM exits with a pc
\* other than kVmExitEntryGuardPc, two edges branch to the same label exactly
\* when they have the same pc, and exitHandlers holds exactly one record per
\* pc referenced: the record made by the first reference, whose label every
\* later reference finds through exitHandlerMap.
C1_ExitHandlerPerPc ==
  /\ \A e1 \in PcEdges : \A e2 \in PcEdges : (e1.pc = e2.pc) <=> (e1.label = e2.label)
  /\ \A pc \in EdgePcs : Cardinality(HandlersOf(pc)) = 1
  /\ \A pc \in Pcs \ EdgePcs : HandlersOf(pc) = {}
  /\ \A e \in PcEdges :
        /\ e.pc \in DOMAIN exitHandlerMap
        /\ exitHandlers[exitHandlerMap[e.pc] + 1] = [self |-> e.label, pcpos |-> e.pc]
  /\ \A e \in PcEdges : e.label \notin {0, exitContinueVmClearNativeFlag}

\* a pc referenced by two instructions and another pc referenced as well
C1_Witness ==
  /\ phase = "finished"
  /\ \E e1 \in PcEdges : \E e2 \in PcEdges : \E e3 \in PcEdges :
        e1.pc = e2.pc /\ e1.at # e2.at /\ e3.pc # e1.pc
  /\ Len(exitHandlers) = 2

\* C2: a VM exit whose pc is kVmExitEntryGuardPc always branches to
\* helpers.exitContinueVmClearNativeFlag and never adds a record to
\* exitHandlers, so the assertion handler.pcpos != kVmExitEntryGuardPc of
\* finishFunction holds for every record.
C2_EntryGuardShared ==
  /\ \A e \in GuardEdges : e.label = exitContinueVmClearNativeFlag
  /\ \A k \in 1..Len(exitHandlers) : exitHandlers[k].pcpos # kVmExitEntryGuardPc
  /\ (GuardEdges # {} /\ EdgePcs = {}) => exitHandlers = <<>>
  /\ finishFunctionAssert(exitHandlers) = ""
  /\ fault # "handler.pcpos != kVmExitEntryGuardPc"

\* the entry guard's exit referenced by three instructions of a function
\* that was lowered to the end
C2_Witness ==
  /\ phase = "finished"
  /\ Cardinality({e.at : e \in GuardEdges}) >= 3
  /\ exitHandlers = <<>>

\* -------------------------------------------------- register allocation
\* the IR values lowered so far that still have a later use
LiveValues ==
  {i \in InstIds : instructions[i].kind # "none" /\ instructions[i].lastUse = Later}
SpillsOf(i) == {sp \in regs.spills : sp.instIdx = i}

\* C3: while a function is lowered, a machine register holds at most one
\* live IR value, and every IR value that still has a later use is in one
\* register (which then holds it), in one spill slot (which then holds it),
\* or in both; never in neither.
C3_ValueResidency ==
  /\ \A i \in LiveValues : \A j \in LiveValues \ {i} :
        instructions[i].regX64 = noreg \/ instructions[i].regX64 # instructions[j].regX64
  /\ \A i \in LiveValues :
        instructions[i].regX64 # noreg =>
          /\ ~regs.free[instructions[i].regX64]
          /\ regs.users[instructions[i].regX64] = i
          /\ mach.reg[instructions[i].regX64] = i
  /\ \A i \in LiveValues :
        /\ Cardinality(SpillsOf(i)) <= 1
        /\ \A sp \in SpillsOf(i) :
             /\ mach.slot[sp.stackSlot] = i
             /\ \A other \in regs.spills \ {sp} : other.stackSlot # sp.stackSlot
  /\ \A i \in LiveValues : instructions[i].regX64 # noreg \/ SpillsOf(i) # {}

\* a reloaded value in a register next to a value in a spill slot
C3_Witness ==
  /\ phase = "lowering"
  /\ \E i \in LiveValues : \E j \in LiveValues :
        /\ instructions[i].regX64 # noreg /\ instructions[i].restores >= 1
        /\ instructions[j].regX64 = noreg /\ SpillsOf(j) # {}

\* C4: a value that was spilled and is then named by an operand is reloaded
\* by regOp, and the register regOp returns holds the value the defining
\* instruction computed, after any number of spills and reloads.
C4_SpillReloadRoundTrip ==
  \A rd \in obs.reads :
     /\ rd.got = rd.value
     /\ rd.reloaded => rd.restores >= 1

\* an operand read by regOp after its second reload
C4_Witness ==
  \E rd \in obs.reads : rd.reloaded /\ rd.restores >= 2 /\ rd.got = rd.value

FinishBlockAsserts == {"predIdx == function.getBlockIndex(curr)", "next.useCount == 1"}

\* C5: hasError() is true exactly when more spill slots were in use at once
\* than kSpillSlots, and exceeding the budget fails no assertion of the
\* lowering: the pass goes on to the end of the function.
C5_SpillBudgetIsAnError ==
  /\ hasError <=> obs.peakSpills > kSpillSlots
  /\ fault \in {""} \cup FinishBlockAsserts

\* a function lowered to the end that had more than kSpillSlots values
\* spilled at once
C5_Witness ==
  /\ phase = "finished"
  /\ fault = ""
  /\ obs.peakSpills > kSpillSlots
  /\ hasError

\* C6: a block the lowering enters with pending spills has the block before
\* it as its only predecessor and a useCount of 1: finishBlock lets no block
\* with another predecessor be entered with pending spills.
C6_JoinBlocksStartSpillFree ==
  blk.entry.spills => (blk.entry.predsOnlyCurr /\ blk.entry.useCount = 1)

\* the second block entered with a value in a spill slot
C6_Witness ==
  /\ phase = "lowering"
  /\ blk.curr = 2
  /\ blk.entry.spills
  /\ regs.spills # {}

\* C7: where INTERRUPT emits the check of the interrupt flag and the branch
\* to its handler, no register holds an IR value, every live IR value is in
\* a spill slot, and the only register in use is the scratch register of
\* the check.
C7_InterruptSpillsAll ==
  obs.interruptSnap # NoSnap =>
    /\ obs.interruptSnap.state.held = {}
    /\ obs.interruptSnap.state.unspilled = {}
    /\ obs.interruptSnap.state.inUse = {obs.interruptSnap.scratch}

\* an INTERRUPT lowered with two values live, both now in spill slots
C7_Witness ==
  /\ obs.interruptSnap # NoSnap
  /\ Cardinality({i \in LiveValues : SpillsOf(i) # {}}) >= 2

HandlerPcs == [k \in 1..Len(interruptHandlers) |-> interruptHandlers[k].pcpos]

\* the records of interruptHandlers are those of the INTERRUPTs lowered
HandlersMatchInterrupts ==
  /\ HandlerPcs = obs.interruptLog
  /\ \A k \in 1..Len(interruptHandlers) :
        /\ interruptHandlers[k].next = interruptHandlers[k].self + 1
        /\ \A m \in 1..Len(interruptHandlers) :
             m # k => interruptHandlers[m].self # interruptHandlers[k].self

\* a step keeps the records it finds and adds one at most, with an INTERRUPT
HandlersAppendOnly ==
  /\ Len(interruptHandlers') >= Len(interruptHandlers)
  /\ SubSeq(interruptHandlers', 1, Len(interruptHandlers)) = interruptHandlers
  /\ interruptHandlers' # interruptHandlers =>
        /\ Len(interruptHandlers') = Len(interruptHandlers) + 1
        /\ Len(obs'.interruptLog) = Len(obs.interruptLog) + 1

\* C8: after k INTERRUPT instructions interruptHandlers holds k records, in
\* lowering order, one for each INTERRUPT also when two have the same pcpos;
\* nothing else adds a record and none is removed or changed.
C8_OneHandlerPerInterrupt ==
  []HandlersMatchInterrupts /\ [][HandlersAppendOnly]_vars

\* two INTERRUPTs with the same pcpos in a function lowered to the end
C8_Witness ==
  /\ phase = "finished"
  /\ Len(interruptHandlers) = 2
  /\ interruptHandlers[1].pcpos = interruptHandlers[2].pcpos
  /\ interruptHandlers[1].self # interruptHandlers[2].self

\* ------------------------------------------------------ two-way branches
\* the state right after a two-way branch was lowered: obs.last is the
\* instruction, obs.lastNext the block after it, build.code its code
TwoWayLowered == phase = "lowering" /\ blk.done /\ IsTwoWay(obs.last.cmd)

\* the target taken when the comparison holds, and the other one
TrueTarget(inst) == IF inst.cmd = "JUMP_CMP_NUM" THEN inst.d ELSE inst.c
FalseTarget(inst) == IF inst.cmd = "JUMP_CMP_NUM" THEN inst.e ELSE inst.d

TrueIsNext == isFallthroughBlock(blockOp(TrueTarget(obs.last)), obs.lastNext)
FalseIsNext == isFallthroughBlock(blockOp(FalseTarget(obs.last)), obs.lastNext)

CondBranches == {k \in 1..Len(build.code) : build.code[k].op = "jcc"}
Jumps == {k \in 1..Len(build.code) : build.code[k].op = "jmp"}

\* the code is one conditional branch to target and no jump
OneBranchTo(target) ==
  /\ Jumps = {}
  /\ Cardinality(CondBranches) = 1
  /\ \A k \in CondBranches : build.code[k].label = labelOp(target)

C10_AsStated ==
  (TwoWayLowered /\ (TrueIsNext # FalseIsNext)) =>
     OneBranchTo(IF TrueIsNext THEN FalseTarget(obs.last) ELSE TrueTarget(obs.last))

\* the opcodes whose lowering chooses the branch by the place of the targets
PicksBranch(inst) ==
  \/ inst.cmd = "JUMP_EQ_TAG"
  \/ inst.cmd = "JUMP_EQ_INT" /\ intOp(inst.b) = 0

\* C10: with exactly one of the two targets the next block, JUMP_EQ_TAG and
\* JUMP_EQ_INT against 0 are lowered to a single conditional branch to the
\* other target and no jump.  JUMP_EQ_INT against another constant,
\* JUMP_LT_INT, JUMP_GE_UINT and JUMP_EQ_POINTER are lowered so only when
\* the false target is the next block; when the true target is, their code
\* is the conditional branch to the true target and a jump to the false
\* target.  JUMP_CMP_NUM emits its jump in the same cases.
C10_BranchOnNonFallthrough ==
  (TwoWayLowered /\ (TrueIsNext # FalseIsNext)) =>
     IF PicksBranch(obs.last)
     THEN OneBranchTo(IF TrueIsNext THEN FalseTarget(obs.last) ELSE TrueTarget(obs.last))
     ELSE IF obs.last.cmd = "JUMP_CMP_NUM"
     THEN IF FalseIsNext THEN Jumps = {}
          ELSE /\ Cardinality(Jumps) = 1
               /\ \A k \in Jumps : build.code[k].label = labelOp(FalseTarget(obs.last))
     ELSE IF FalseIsNext THEN OneBranchTo(TrueTarget(obs.last))
     ELSE /\ Cardinality(CondBranches) = 1
          /\ \A k \in CondBranches : build.code[k].label = labelOp(TrueTarget(obs.last))
          /\ Cardinality(Jumps) = 1
          /\ \A k \in Jumps : build.code[k].label = labelOp(FalseTarget(obs.last))

\* JUMP_EQ_INT against 0 whose true target is the next block: the branch is
\* taken on NotZero, to the false target
C10_Witness ==
  /\ TwoWayLowered /\ TrueIsNext /\ ~FalseIsNext
  /\ obs.last.cmd = "JUMP_EQ_INT" /\ intOp(obs.last.b) = 0
  /\ OneBranchTo(FalseTarget(obs.last))
  /\ \A k \in CondBranches : build.code[k].cond = "NotZero"

\* ------------------------------------------------------- aborts on Undef
\* the operand of a guard or jump that names where it goes
FailureTarget(inst) ==
  CASE inst.cmd \in {"CHECK_TAG", "CHECK_TRUTHY", "CHECK_ARRAY_SIZE", "CHECK_SLOT_MATCH"} -> inst.c
    [] inst.cmd \in {"CHECK_SAFE_ENV", "JUMP"} -> inst.a
    [] OTHER -> inst.b

\* the condition on which a guard leaves for its failure target
GuardCondition(cmd) ==
  CASE cmd \in {"CHECK_TAG", "CHECK_READONLY", "CHECK_NO_METATABLE"} -> "NotEqual"
    [] cmd \in {"CHECK_TRUTHY", "CHECK_SAFE_ENV", "CHECK_NODE_VALUE"} -> "Equal"
    [] cmd = "CHECK_ARRAY_SIZE" -> "BelowEqual"
    [] cmd = "CHECK_NODE_NO_NEXT" -> "NotZero"
    [] OTHER -> "Count"

\* the last step lowered a guard or a jump, and no assertion failed
BranchLowered ==
  phase \in {"lowering", "blocksDone"} /\ (IsGuard(obs.last.cmd) \/ obs.last.cmd = "JUMP")

\* the last step went through jumpOrAbortOnUndef with an Undef target
AbortLowered ==
  /\ BranchLowered
  /\ obs.last.cmd # "CHECK_SLOT_MATCH"
  /\ FailureTarget(obs.last).kind = "Undef"

UndefBranches ==
  {k \in 1..Len(build.code) :
     build.code[k].op \in {"jmp", "jcc"} /\ build.code[k].target.kind = "Undef"}
Traps == {k \in 1..Len(build.code) : build.code[k].op = "ud2"}

\* the label of the branch at k is bound right after the trap that follows
\* the branch, and nothing else in the code or in a handler names it
FreshLabelAt(k) ==
  /\ build.code[k].label >= FirstFreshLabel
  /\ build.code[k].label < build.nextLabel
  /\ \A j \in 1..Len(build.code) :
       (build.code[j].label = build.code[k].label) => j \in {k, k + 2}
  /\ \A h \in 1..Len(exitHandlers) : exitHandlers[h].self # build.code[k].label
  /\ \A h \in 1..Len(interruptHandlers) :
       build.code[k].label \notin {interruptHandlers[h].self, interruptHandlers[h].next}

FlagStates == [zf : BOOLEAN, cf : BOOLEAN, lt : BOOLEAN]
NoEnv == [heap |-> << >>, vm |-> << >>, ret |-> Zero]
ZeroRegs == [r \in Regs |-> Zero]
ZeroSlots == [q \in SpillArea |-> Zero]

\* run from the branch at k with the flags f, the code reaches the trap when
\* c holds and the instruction after the label when it does not
TrapsExactlyWhen(k, c) ==
  \A f \in FlagStates :
    With(runCode(SubSeq(build.code, k, k + 2), NoEnv,
                 Machine(ZeroRegs, ZeroSlots, f.zf, f.cf, f.lt)),
         LAMBDA m : IF CondHolds(c, f) THEN m.halt = "trap" ELSE m.halt = "end")

AbortSequenceAt(k, c) ==
  /\ k + 2 <= Len(build.code)
  /\ build.code[k].op = "jcc"
  /\ build.code[k].cond = getReverseCondition(c)
  /\ build.code[k + 1].op = "ud2"
  /\ build.code[k + 2].op = "setLabel"
  /\ build.code[k + 2].label = build.code[k].label
  /\ FreshLabelAt(k)
  /\ TrapsExactlyWhen(k, c)

C11_AbortEmitted ==
  AbortLowered =>
    IF obs.last.cmd = "JUMP" THEN build.code = << Plain("ud2") >>
    ELSE /\ UndefBranches # {}
         /\ \A k \in UndefBranches : AbortSequenceAt(k, GuardCondition(obs.last.cmd))
         /\ \A t \in Traps : t - 1 \in UndefBranches

\* a step that lowers a guard or jump with an Undef target leaves the exit
\* handlers as they were
C11_NoHandlerRecorded ==
  (blk'.index # blk.index /\ AbortLowered') =>
     /\ exitHandlers' = exitHandlers
     /\ exitHandlerMap' = exitHandlerMap

\* C11: jumpOrAbortOnUndef with an Undef target and a condition c emits a
\* conditional branch on the reverse of c to a fresh label, then ud2, then
\* the binding of that label, so that the trap is reached exactly when c
\* holds; with an Undef target and no condition it emits only ud2; in
\* neither case is an exit handler recorded.
C11_AbortOnUndef == []C11_AbortEmitted /\ [][C11_NoHandlerRecorded]_vars

\* CHECK_TRUTHY of a VM register with an Undef target, lowered after a guard
\* that made an exit handler: both of its tests abort
C11_Witness ==
  /\ AbortLowered
  /\ obs.last.cmd = "CHECK_TRUTHY"
  /\ Cardinality(UndefBranches) = 2
  /\ Cardinality(Traps) = 2
  /\ exitHandlers # << >>

\* ------------------------------------------------- unconditional edges
\* the last step lowered JUMP to target, and no assertion failed
JumpLowered == phase \in {"lowering", "blocksDone"} /\ obs.last.cmd = "JUMP"

\* the label of the exit trampoline of a VmExit operand
ExitLabel(op) ==
  IF vmExitOp(op) = kVmExitEntryGuardPc THEN exitContinueVmClearNativeFlag
  ELSE exitHandlers[exitHandlerMap[vmExitOp(op)] + 1].self

\* the code is one jmp to label and no other branch
OneJumpTo(label) ==
  /\ CondBranches = {}
  /\ Cardinality(Jumps) = 1
  /\ \A k \in Jumps : build.code[k].label = label

\* C12: an unconditional edge to a block emits no branch when the target is
\* the next block in emission order (target.start = next.start) and exactly
\* one jmp to the label of the target otherwise; an unconditional edge to a
\* VM exit always emits a jmp, whatever the next block is.
C12_UnconditionalEdge ==
  JumpLowered =>
    CASE obs.last.a.kind = "Block" ->
           IF BlockStart(blockOp(obs.last.a)) = BlockStart(obs.lastNext)
           THEN CondBranches = {} /\ Jumps = {}
           ELSE OneJumpTo(BlockLabel(blockOp(obs.last.a)))
      [] obs.last.a.kind = "VmExit" ->
           /\ vmExitOp(obs.last.a) # kVmExitEntryGuardPc
                => vmExitOp(obs.last.a) \in DOMAIN exitHandlerMap
           /\ OneJumpTo(ExitLabel(obs.last.a))
      [] OTHER -> TRUE

\* in the second block, a JUMP to the block that comes next emitted nothing,
\* after a JUMP out of the first block that needed its jmp
C12_Witness ==
  /\ JumpLowered
  /\ blk.curr > 1
  /\ obs.last.a.kind = "Block"
  /\ BlockStart(blockOp(obs.last.a)) = BlockStart(obs.lastNext)
  /\ build.code = << >>

\* ------------------------------------------------- guards and VM exits
\* the last step was lowerInst on a guard whose failure target is a VM exit
GuardOnExit == IsGuard(obs.last.cmd) /\ FailureTarget(obs.last).kind = "VmExit"

\* the branches of the code to the failure target of the guard
FailureBranches ==
  {k \in 1..Len(build.code) :
     build.code[k].op \in {"jmp", "jcc"} /\ build.code[k].target = FailureTarget(obs.last)}

\* C13: for every guard opcode with a failure target (CHECK_TAG,
\* CHECK_TRUTHY, CHECK_READONLY, CHECK_NO_METATABLE, CHECK_SAFE_ENV,
\* CHECK_ARRAY_SIZE, CHECK_SLOT_MATCH, CHECK_NODE_NO_NEXT, CHECK_NODE_VALUE)
\* a failure target that is a VM exit is lowered to a branch to the exit
\* trampoline label of its pc, created on first use, and is never resolved
\* as a block label.
C13_GuardExitsToTrampoline ==
  GuardOnExit =>
    /\ fault # "blockOp: operand is not a block"
    /\ phase \in {"lowering", "blocksDone"} =>
         /\ FailureBranches # {}
         /\ vmExitOp(FailureTarget(obs.last)) # kVmExitEntryGuardPc
              => vmExitOp(FailureTarget(obs.last)) \in DOMAIN exitHandlerMap
         /\ \A k \in FailureBranches :
              build.code[k].label = ExitLabel(FailureTarget(obs.last))


\* ------------------------------------------------------------ NOT_ANY
\* the code of a NOT_ANY has been run
NotAnyRun == obs.run.done /\ obs.last.cmd = "NOT_ANY"

\* the operand is falsy: its tag is nil, or boolean with the payload 0
Falsy(tag, value) ==
  tag = Word(LUA_TNIL) \/ (tag = Word(LUA_TBOOLEAN) /\ value = Zero)

NotAnyExpected ==
  IF Falsy(OperandWord(obs.run.in, obs.last, obs.last.a),
           OperandWord(obs.run.in, obs.last, obs.last.b))
  THEN Word(1) ELSE Zero

\* the result shares the register of one of the operands
ResultReused ==
  \E op \in {obs.last.a, obs.last.b} :
    /\ op.kind = "Inst"
    /\ obs.pre.reg[instructions[blk.index].regX64] = op.index

\* C14: the code of NOT_ANY runs to its end and leaves 1 in the result
\* register exactly when the operand is falsy (tag nil, or tag boolean and
\* payload 0) and 0 otherwise, for every tag and payload, for constant and
\* register operands, and when the result reuses an operand's register.
C14_NotAnyResult ==
  NotAnyRun =>
    /\ obs.run.halt = "end"
    /\ ~obs.run.undef
    /\ lowBits(obs.run.out, 32) = NotAnyExpected

C14_Witness ==
  /\ NotAnyRun
  /\ ResultReused
  /\ obs.last.a.kind = "Inst"
  /\ obs.last.b.kind = "Inst"
  /\ obs.run.in.va = Word(LUA_TBOOLEAN)
  /\ obs.run.in.vb = Zero
  /\ obs.run.out = Word(1)

\* ------------------------------------------------- leading and trailing zeros
BitCountRun == obs.run.done /\ obs.last.cmd \in {"BITCOUNTLZ_UINT", "BITCOUNTRZ_UINT"}

\* the zero bits of the 32-bit value x above its highest one, below its
\* lowest one; 32 when x is 0
LeadingZeros(x) == Cardinality({i \in 0..31 : \A j \in i..31 : ~x[j]})
TrailingZeros(x) == Cardinality({i \in 0..31 : \A j \in 0..i : ~x[j]})

\* a bit scan is among the instructions of the last step
ScanEmitted ==
  \E k \in 1..Len(build.code) :
    HasOperands(build.code[k]) /\ build.code[k].op \in {"bsr", "bsf"}

\* C15: BITCOUNTLZ_UINT leaves the number of leading zero bits of its 32-bit
\* operand in the result register and BITCOUNTRZ_UINT the number of trailing
\* zero bits, both 32 for the operand 0, and the run never executes bsr or bsf
\* on a zero operand (where their result is undefined).
C15_BitCounts ==
  BitCountRun =>
    /\ obs.run.halt = "end"
    /\ ~obs.run.undef
    /\ lowBits(obs.run.out, 32)
         = Word(IF obs.last.cmd = "BITCOUNTLZ_UINT" THEN LeadingZeros(obs.run.in.va)
                ELSE TrailingZeros(obs.run.in.va))

C15_Witness ==
  /\ BitCountRun
  /\ ScanEmitted
  /\ obs.last.cmd = "BITCOUNTLZ_UINT"
  /\ obs.run.in.va = Zero
  /\ obs.run.out = Word(32)
  /\ obs.pre.reg[instructions[blk.index].regX64] = obs.last.a.index

\* ------------------------------------------------ address of a hash node
HashRun == obs.run.done /\ obs.last.cmd = "GET_HASH_NODE_ADDR"

\* node + ((((1 << lsizenode) - 1) & hash) << kLuaNodeSizeLog2), the mask of
\* lsizenode low ones taken of the 32-bit hash, the sum in 64 bits
HashNodeAddr(node, lsizenode, hash) ==
  wordAdd(node, shiftLeft(bitAnd(LowOnes(lsizenode), lowBits(hash, 32)),
                          kLuaNodeSizeLog2, 64),
          64)

\* the shifts by a register take the count from cl, loaded from lsizenode
\* by the instruction before
ShiftCountInCl ==
  /\ \E k \in 1..Len(build.code) :
       /\ HasOperands(build.code[k])
       /\ build.code[k].op = "shl"
       /\ build.code[k].src[1].k = "reg"
  /\ \A k \in 1..Len(build.code) :
       (/\ HasOperands(build.code[k])
        /\ build.code[k].op = "shl"
        /\ build.code[k].src[1].k = "reg")
         => /\ build.code[k].src[1].r = rcx
            /\ k > 1
            /\ build.code[k - 1].op = "mov"
            /\ build.code[k - 1].w = 8
            /\ build.code[k - 1].dst = RegArg(rcx)
            /\ build.code[k - 1].src[1].k = "mem"
            /\ build.code[k - 1].src[1].field = "lsizenode"

\* C17: the code of GET_HASH_NODE_ADDR leaves in the result register
\* node_base + ((((1 << lsizenode) - 1) & hash) << kLuaNodeSizeLog2) for
\* every lsizenode and 32-bit hash: the shift count is in cl, the mask is
\* computed in 32 bits and scaled in 64 bits.
C17_HashNodeAddress ==
  HashRun =>
    /\ obs.run.halt = "end"
    /\ ~obs.run.undef
    /\ ShiftCountInCl
    /\ obs.run.out = HashNodeAddr(obs.run.in.m1, countFrom(obs.run.in.m2, 7),
                                  WordOfInt(uintOp(obs.last.b)))

\* the mask of 31 ones scaled past bit 31 (64 + (2^31 - 1) * 32 = 2^36 + 32),
\* with the table found in rcx
C17_Witness ==
  /\ HashRun
  /\ obs.pre.reg[rcx] = obs.last.a.index
  /\ obs.run.in.m2 = Word(31)
  /\ obs.last.b = Op("Constant", -1)
  /\ obs.run.in.m1 = Word(64)
  /\ obs.run.out = bitOr(BitAt(36), BitAt(5))

\* ------------------------------------------- fast lookup of a tag method
GettmRun == obs.run.done /\ obs.last.cmd = "TRY_CALL_FASTGETTM"

\* the table of the run has a metatable; the metatable's tmcache has the bit
\* of the requested tag method set
HasMetatable == obs.run.in.m1 # Zero
CacheBitSet == bitAnd(obs.run.in.m2, Word(2 ^ intOp(obs.last.b))) # Zero

\* the run left the code for the label of the block inst.c ('not found')
WentToNotFound == obs.run.halt = "left" /\ obs.run.left = labelOp(obs.last.c)

\* the checks before the call: the call of luaT_gettm is reached only with
\* a metatable whose tmcache bit is clear, and without one or with the bit
\* set the run goes to 'not found' without calling
GettmShortCircuit ==
  GettmRun =>
    /\ obs.run.calls > 0 => (HasMetatable /\ ~CacheBitSet)
    /\ (~HasMetatable \/ CacheBitSet) => (obs.run.calls = 0 /\ WentToNotFound)

\* C16: in the code of TRY_CALL_FASTGETTM the call of luaT_gettm is reached
\* only if the table has a metatable whose tmcache bit of the tag method is
\* clear; without a metatable or with the bit set the run goes to the 'not
\* found' label without the call, and so does a run whose call returns null.
C16_FastGettm ==
  /\ GettmShortCircuit
  /\ (GettmRun /\ HasMetatable /\ ~CacheBitSet /\ obs.run.in.ret = Zero) => WentToNotFound

\* ------------------------------------------------- operands that are values
\* the value of instruction i is nowhere: it has no register and is not
\* marked spilled or needsReload
Unplaced(i) ==
  /\ instructions[i].regX64 = noreg
  /\ ~instructions[i].spilled
  /\ ~instructions[i].needsReload

\* the operands a and b of inst that refer to IR values
ValueOperands(inst) == {op \in {inst.a, inst.b} : op.kind = "Inst"}

OperandCmds == {"CHECK_TAG", "BITAND_UINT", "ADD_NUM"}

\* the step lowers an instruction that resolves its operands a and b
OperandStep ==
  /\ phase = "lowering"
  /\ ~blk.done
  /\ blk'.index = blk.index + 1 \/ phase' = "abort"
  /\ obs'.last.cmd \in OperandCmds

RegOpAssertion == "regOp: inst.regX64 != noreg"

\* the assertions on an operand: of regOp, of allocRegOrReuse on a candidate
\* without a register, of the memReg operand flavours
OperandAssertions ==
  {RegOpAssertion, "allocRegOrReuse: source.regX64 != noreg", "Unsupported operand kind"}

\* every register regOp returned is a register, and a value marked spilled
\* or needsReload was restored before
RegOpGivesRegister ==
  \A rd \in obs.reads : rd.reg \in Regs /\ (rd.reloaded => rd.restores >= 1)

\* lowering an instruction with an operand whose value is nowhere ends in an
\* assertion; the assertion of regOp fails for such operands only
RegOpFailsUnplaced ==
  OperandStep =>
    /\ (\E op \in ValueOperands(obs'.last) : Unplaced(op.index))
          => (phase' = "abort" /\ fault' \in OperandAssertions)
    /\ fault' = RegOpAssertion
          => \E op \in ValueOperands(obs'.last) : Unplaced(op.index)

\* C18: regOp restores a value marked spilled or needsReload before it
\* returns its register, and the register it returns is never noreg: for a
\* value that has none after that step (it never received one, or lost it)
\* the lowering stops at a fatal assertion.
C18_RegOpNeverNoreg == []RegOpGivesRegister /\ [][RegOpFailsUnplaced]_vars

\* the assertion of regOp failed on an operand that names an instruction
\* without a value
C18_Witness ==
  /\ phase = "abort"
  /\ fault = RegOpAssertion
  /\ obs.last.cmd \in OperandCmds
  /\ \E op \in ValueOperands(obs.last) :
       Unplaced(op.index) /\ instructions[op.index].kind = "none"

\* ---------------------------------------------- the three operand flavours
\* the operand the instruction passes to memRegTagOp (CHECK_TAG),
\* memRegUintOp (BITAND_UINT) or memRegDoubleOp (ADD_NUM), and the kinds
\* the flavour takes
FlavourOperand(inst) == IF inst.cmd = "CHECK_TAG" THEN inst.a ELSE inst.b

AcceptedKinds(cmd) ==
  CASE cmd = "ADD_NUM" -> {"Inst", "Constant", "VmReg", "VmConst"}
    [] cmd = "BITAND_UINT" -> {"Inst", "Constant", "VmReg"}
    [] cmd = "CHECK_TAG" -> {"Inst", "VmReg", "VmConst"}
    [] OTHER -> {}

OperandResolved == obs.last.cmd \in OperandCmds /\ phase \in {"lowering", "abort"}

\* C19: memRegDoubleOp takes operands of the kinds Inst, Constant, VmReg and
\* VmConst, memRegUintOp those of the kinds Inst, Constant and VmReg (not
\* VmConst), memRegTagOp those of the kinds Inst, VmReg and VmConst (not
\* Constant); an operand of any other kind fails the assertion 'Unsupported
\* operand kind'.
C19_OperandFlavours ==
  OperandResolved =>
    IF FlavourOperand(obs.last).kind \in AcceptedKinds(obs.last.cmd)
    THEN fault # "Unsupported operand kind"
    ELSE /\ phase = "abort"
         /\ fault \in OperandAssertions
         /\ fault # "Unsupported operand kind"
               => \E op \in ValueOperands(obs.last) : Unplaced(op.index)

\* a VmConst operand refused by memRegUintOp
C19_Witness ==
  /\ phase = "abort"
  /\ fault = "Unsupported operand kind"
  /\ obs.last.cmd = "BITAND_UINT"
  /\ obs.last.b.kind = "VmConst"

\* ------------------------------------------------ reuse of a source register
ReuseCmds ==
  {"ADD_INT", "SUB_INT", "BITAND_UINT", "NOT_ANY", "BITCOUNTLZ_UINT", "BITCOUNTRZ_UINT",
   "ADD_NUM", "MOD_NUM"}

\* the code of an instruction that got its register from allocRegOrReuse
\* has been run
ReuseRun == obs.run.done /\ obs.last.cmd \in ReuseCmds

\* the operands the opcode passes to allocRegOrReuse that are values
Candidates(inst) ==
  {op \in (IF inst.cmd \in {"NOT_ANY", "ADD_NUM", "MOD_NUM"} THEN {inst.a, inst.b}
           ELSE {inst.a}) : op.kind = "Inst"}

\* the register of the result
Dest == instructions[blk.index].regX64

\* before the step the register of the result was free, or held a candidate
\* whose last use is this instruction, or a value the step spilled out of it
DestFreeOrDying ==
  \/ obs.pre.reg[Dest] = Junk
  \/ \E op \in Candidates(obs.last) :
       obs.pre.reg[Dest] = op.index /\ instructions[op.index].lastUse = blk.index
  \/ \E sp \in regs.spills : sp.instIdx = obs.pre.reg[Dest] /\ sp.originalLoc = Dest

\* the value of an operand of the instruction run, an integer or a double
RunOperand(op) ==
  IF op.kind = "Inst" THEN ValOf(obs.run.in, obs.last, op.index)
  ELSE IF obs.last.cmd \in {"ADD_NUM", "MOD_NUM"} THEN Fix(doubleOp(op))
  ELSE WordOfInt(intOp(op))

\* what the opcode computes of its operands a and b
Computed(cmd, a, b) ==
  CASE cmd = "ADD_INT" -> wordAdd(a, b, 32)
    [] cmd = "SUB_INT" -> wordSub(a, b, 32)
    [] cmd = "BITAND_UINT" -> lowBits(bitAnd(a, b), 32)
    [] cmd = "NOT_ANY" -> IF Falsy(a, b) THEN Word(1) ELSE Zero
    [] cmd = "BITCOUNTLZ_UINT" -> Word(LeadingZeros(a))
    [] cmd = "BITCOUNTRZ_UINT" -> Word(TrailingZeros(a))
    [] cmd = "ADD_NUM" -> fixAdd(a, b)
    [] cmd = "MOD_NUM" -> Fix((fixNum(a) \div DoubleUnit) % (fixNum(b) \div DoubleUnit))

\* the run ends with the value the opcode computes in the result register
\* (an integer in its low half) and with every live value where it is kept
ResultComputed ==
  /\ obs.run.halt = "end"
  /\ ~obs.run.undef
  /\ obs.run.lost = {}
  /\ (IF obs.last.cmd \in {"ADD_NUM", "MOD_NUM"} THEN obs.run.out
      ELSE lowBits(obs.run.out, 32))
        = Computed(obs.last.cmd, RunOperand(obs.last.a), RunOperand(obs.last.b))

\* the registers an emitted instruction reads and writes
ReadOperands(ins) ==
  {ins.src[j] : j \in 1..Len(ins.src)}
    \cup (IF ins.op \in {"add", "sub", "inc", "dec", "and", "or", "xor", "not", "shl", "shr",
                         "cmp", "test"}
          THEN {ins.dst} ELSE {ins.dst} \ {RegArg(r) : r \in Regs})
ReadsOf(ins) ==
  IF ~HasOperands(ins) THEN {}
  ELSE {arg.r : arg \in {x \in ReadOperands(ins) : x.k = "reg"}}
         \cup {arg.base : arg \in {x \in ReadOperands(ins) : x.k = "mem"}}
WritesOf(ins) ==
  IF HasOperands(ins) /\ ins.dst.k = "reg" /\ ins.op \notin {"cmp", "test"}
  THEN {ins.dst.r} ELSE {}

\* the position of the first instruction that writes the result register
FirstWrite ==
  Min({k \in 1..Len(build.code) : Dest \in WritesOf(build.code[k])} \cup {Len(build.code) + 1})

\* the registers other than the result's that held the operands before
SourceRegs ==
  {r \in Regs \ {Dest} : obs.pre.reg[r] \in {op.index : op \in ValueOperands(obs.last)}}

\* no instruction after the first write to the result reads a source
SourcesReadFirst ==
  \A k \in (FirstWrite + 1)..Len(build.code) : ReadsOf(build.code[k]) \cap SourceRegs = {}

\* C20 as stated: the register allocRegOrReuse gives is free or that of a
\* candidate with its last use here, no value with a later use is lost, and
\* every source is read no later than the first write to the result.
C20_AsStated ==
  ReuseRun => (DestFreeOrDying /\ ResultComputed /\ SourcesReadFirst)

\* C20: the register allocRegOrReuse gives is free or that of a candidate
\* whose last use is the current instruction; the code loses no value with
\* a later use and computes the same result with and without reuse.  A
\* source that is not in the result register may be read after the first
\* write to it.
C20_ReuseIsTransparent ==
  ReuseRun => (DestFreeOrDying /\ ResultComputed)

\* 7 mod 2 computed in the register of the dying right operand
C20_Witness ==
  /\ ReuseRun
  /\ obs.last.cmd = "MOD_NUM"
  /\ obs.last.a.kind = "Inst"
  /\ obs.last.b.kind = "Inst"
  /\ obs.last.a # obs.last.b
  /\ obs.pre.reg[Dest] = obs.last.b.index
  /\ obs.run.in.va = Fix(7)
  /\ obs.run.in.vb = Fix(2)
  /\ obs.run.out = Fix(1)

\* ------------------------------------------- a sum stored to a VM register
\* the steps so far are the loads of two VM registers, the sum of the two
\* values and its store to a VM register, and their code was run
SumStored ==
  /\ obs.whole
  /\ obs.run.done
  /\ Len(obs.program) = 4
  /\ obs.program[1].cmd = "LOAD_DOUBLE"
  /\ obs.program[2].cmd = "LOAD_DOUBLE"
  /\ obs.program[3].cmd = "ADD_NUM"
  /\ {obs.program[3].a, obs.program[3].b} = {Op("Inst", 1), Op("Inst", 2)}
  /\ obs.program[4].cmd = "STORE_DOUBLE"
  /\ obs.program[4].b = Op("Inst", 3)

\* the sum of what the two loaded VM registers held
SumOfSources ==
  fixAdd(obs.run.in[obs.program[1].a.index], obs.run.in[obs.program[2].a.index])

\* C21: the code of LOAD_DOUBLE of two VM registers, ADD_NUM of the two
\* values and STORE_DOUBLE to a VM register runs to its end and writes one
\* thing only, the sum to the value field of the destination: no tag field,
\* no other VM register and no other memory is written.
C21_StoreSumFrame ==
  SumStored =>
    /\ obs.run.halt = "end"
    /\ ~obs.run.undef
    /\ obs.run.stack = (VmArg(obs.program[4].a) :> SumOfSources)
    /\ obs.run.mem = NoWrites

\* 1.25 in R1 and 2.5 in R2 leave 3.75 in the value field of R3
C21_Witness ==
  /\ SumStored
  /\ obs.program[1].a = Op("VmReg", 1)
  /\ obs.program[2].a = Op("VmReg", 2)
  /\ obs.program[4].a = Op("VmReg", 3)
  /\ obs.run.in[1] = Quarters(5)
  /\ obs.run.in[2] = Quarters(10)
  /\ obs.run.stack = (VmArg(Op("VmReg", 3)) :> Quarters(15))

\* --------------------------------------------------------------- ROUND_NUM
\* the last step lowered ROUND_NUM and its code was run
RoundRun == obs.last.cmd = "ROUND_NUM" /\ obs.run.done /\ phase = "lowering"

\* the double the run gave the operand
RoundInput ==
  IF obs.last.a.kind = "Inst" THEN obs.run.in.va
  ELSE IF obs.last.a.kind = "Constant" THEN Fix(doubleOp(obs.last.a))
  ELSE obs.run.in.m1

\* x rounded to the nearest integer, a tie away from zero; the sign is kept
HalfAway(x) ==
  Dbl(x[63], IF 2 * (fixNum(x) % DoubleUnit) >= DoubleUnit
             THEN (fixNum(x) \div DoubleUnit) * DoubleUnit + DoubleUnit
             ELSE (fixNum(x) \div DoubleUnit) * DoubleUnit)

\* the last five instructions of the code: the sign of the result register
\* is taken, the largest double below one half is loaded and given the
\* sign, the two are added and the sum is rounded towards zero
RoundTail(code, k, result) ==
  /\ code[k].op = "vandpd"
  /\ code[k].src = << RegArg(result), ImmArg(BitAt(63)) >>
  /\ code[k + 1].op = "vmovsd"
  /\ code[k + 1].src = << ImmArg(Dbl(FALSE, halfBelow)) >>
  /\ code[k + 2].op = "vorpd"
  /\ code[k + 2].dst = code[k].dst
  /\ code[k + 2].src = << code[k].dst, code[k + 1].dst >>
  /\ code[k + 3].op = "vaddsd"
  /\ code[k + 3].dst = RegArg(result)
  /\ code[k + 3].src = << RegArg(result), code[k].dst >>
  /\ code[k + 4].op = "vroundsd"
  /\ code[k + 4].dst = RegArg(result)
  /\ code[k + 4].src = << RegArg(result), RegArg(result), RoundToZero >>

\* no instruction of the code has one half, of either sign, as an operand
NeverAddsHalf ==
  \A k \in 1..Len(build.code) :
    HasOperands(build.code[k]) =>
      \A j \in 1..Len(build.code[k].src) :
        build.code[k].src[j].k = "imm" =>
          build.code[k].src[j].v \notin {Dbl(FALSE, DoubleUnit \div 2),
                                         Dbl(TRUE, DoubleUnit \div 2)}

\* C22: for every double x the code of ROUND_NUM leaves x rounded to the
\* nearest integer in the result register, a tie rounded away from zero
\* (0.5 to 1, -0.5 to -1, 2.5 to 3, the largest double below 0.5 to 0): it
\* adds the largest double below one half with the sign of x and rounds the
\* sum towards zero, and one half is no operand of any instruction.
C22_RoundHalfAway ==
  RoundRun =>
    /\ obs.run.halt = "end"
    /\ ~obs.run.undef
    /\ obs.run.out = HalfAway(RoundInput)
    /\ Len(build.code) >= 5
    /\ RoundTail(build.code, Len(build.code) - 4, instructions[blk.index].regX64)
    /\ NeverAddsHalf

\* the largest double below one half, in a register, is rounded to zero
C22_Witness ==
  /\ RoundRun
  /\ obs.last.a.kind = "Inst"
  /\ obs.run.in.va = Dbl(FALSE, halfBelow)
  /\ obs.run.out = Zero

\* ----------------------------------------------------------------- MOD_NUM
\* the last step lowered MOD_NUM and its code was run to the end
ModRun ==
  /\ obs.last.cmd = "MOD_NUM"
  /\ obs.run.done
  /\ phase = "lowering"
  /\ ~obs.run.undef

\* the doubles the run gave the operands a and b
ModOperand(op) ==
  IF op.kind = "Inst" THEN ValOf(obs.run.in, obs.last, op.index)
  ELSE IF op.kind = "Constant" THEN Fix(doubleOp(op))
  ELSE obs.run.in.m1

Dividend == ModOperand(obs.last.a)
Divisor == ModOperand(obs.last.b)

\* floor(a / b) * b and a - floor(a / b) * b, every operation rounded
FloorTimes(a, b) == fixMul(fixFloor(fixDiv(a, b)), b)
ModOf(a, b) == fixSub(a, FloorTimes(a, b))

\* in every operand form the code computes a - floor(a / b) * b, each of the
\* four operations rounded as the processor rounds it
ModComputes == ModRun => obs.run.halt = "end" /\ obs.run.out = ModOf(Dividend, Divisor)

\* a result that is not zero has the sign of b
SignOfDivisor == fixNum(obs.run.out) # 0 => obs.run.out[63] = Divisor[63]

\* a == floor(a / b) * b + result, as numbers
ModIdentity ==
  signedNum(Dividend) = signedNum(fixAdd(FloorTimes(Dividend, Divisor), obs.run.out))

\* C23: for every pair (a, b) with b # 0 the code of MOD_NUM computes
\* a - floor(a / b) * b in every operand form, so the result has the sign of
\* b and a == floor(a / b) * b + result
C23_ModSignAndIdentity ==
  ModRun /\ fixNum(Divisor) # 0 =>
    /\ obs.run.out = ModOf(Dividend, Divisor)
    /\ SignOfDivisor
    /\ ModIdentity

\* the smallest positive double modulo -3 is itself, a positive number
ModTinyByNegative ==
  /\ ModRun
  /\ Dividend = Dbl(FALSE, 1)
  /\ Divisor = Fix(-3)
  /\ obs.run.out = Dbl(FALSE, 1)

\* ------------------------------------------------- calls and the VM base
\* the opcodes whose helper may reallocate the VM stack: the code reloads
\* rBase after their call
ReloadingCalls == {"CMP_ANY", "GET_IMPORT", "CONCAT", "FORGLOOP_FALLBACK"}

\* the last step lowered one of them
CallLowered == phase = "lowering" /\ obs.last.cmd \in ReloadingCalls

CallsIn(code) == {k \in 1..Len(code) : code[k].op = "call"}
SetsArgument(ins) == HasOperands(ins) /\ ins.dst.k = "arg"
ReloadsBase(ins) == HasOperands(ins) /\ ins.op = "mov" /\ ins.dst = BaseArg
IsBranch(ins) == ins.op \in {"jmp", "jcc"}

\* the instruction has an operand in a VM register, found through rBase
AddressesVm(ins) ==
  /\ HasOperands(ins)
  /\ \/ ins.dst.k \in {"vm", "vmtag", "vmaddr"}
     \/ \E n \in 1..Len(ins.src) : ins.src[n].k \in {"vm", "vmtag", "vmaddr"}

\* arguments, the call at k, the base right after it, then the rest
CallShape(code, k) ==
  /\ \E n \in 1..(k - 1) : SetsArgument(code[n])
  /\ \A n \in 1..Len(code) : SetsArgument(code[n]) \/ IsBranch(code[n]) => n # k
  /\ \A n \in 1..Len(code) : SetsArgument(code[n]) => n < k
  /\ k < Len(code) /\ ReloadsBase(code[k + 1])
  /\ \A n \in 1..Len(code) : ReloadsBase(code[n]) => n = k + 1
  /\ \A n \in 1..Len(code) : IsBranch(code[n]) => n > k + 1
  /\ \A n \in (k + 1)..Len(code) : ~AddressesVm(code[n])

\* the result of CMP_ANY is in eax, claimed after the call spilled what lived
ResultClaimedLast ==
  obs.last.cmd = "CMP_ANY" =>
    /\ instructions[blk.index].regX64 = rax
    /\ ~instructions[blk.index].spilled
    /\ regs.users[rax] = blk.index
    /\ \A r \in Regs \ {rax} : regs.free[r]
    /\ \A n \in 1..Len(build.code) : build.code[n].op = "spill" => n < Min(CallsIn(build.code))

\* C24: an opcode lowered as a call of a runtime helper that may reallocate
\* the VM stack emits the arguments, the call, then the reload of the base
\* pointer, and only then claims its result register or branches; nothing
\* between the call and the reload addresses a VM register
C24_CallThenBase ==
  CallLowered =>
    /\ Cardinality(CallsIn(build.code)) = 1
    /\ \A k \in CallsIn(build.code) : CallShape(build.code, k)
    /\ ResultClaimedLast

\* CMP_ANY after a live value: the call spilled the value, eax is the result
C24_Witness ==
  /\ CallLowered
  /\ obs.last.cmd = "CMP_ANY"
  /\ \E i \in 1..(blk.index - 1) : instructions[i].spilled \/ instructions[i].needsReload
  /\ instructions[blk.index].regX64 = rax

\* ------------------------------------------------------------ finishFunction
\* the function was lowered to the end: build.code is what finishFunction
\* emitted
Finished == phase = "finished"

BindingsOf(label) ==
  {n \in 1..Len(build.code) : build.code[n].op = "setLabel" /\ build.code[n].label = label}

\* the body of interrupt handler k starts at n: its label, pcpos + 1, the
\* address of the resume label, the jump to the shared trampoline
InterruptBodyAt(n, k) ==
  /\ n + 3 <= Len(build.code)
  /\ build.code[n] = Ins("setLabel", "", interruptHandlers[k].self, NoneOp)
  /\ build.code[n + 1] = InsImm("mov", interruptHandlers[k].pcpos + 1)
  /\ build.code[n + 2] = Ins("lea", "", interruptHandlers[k].next, NoneOp)
  /\ build.code[n + 3] = Ins("jmp", "Count", interruptLabel, NoneOp)

\* the body of exit handler k starts at n: its label, the byte offset of the
\* pc, the jump to the shared trampoline
ExitBodyAt(n, k) ==
  /\ n + 2 <= Len(build.code)
  /\ build.code[n] = Ins("setLabel", "", exitHandlers[k].self, NoneOp)
  /\ build.code[n + 1] = InsImm("mov", exitHandlers[k].pcpos * sizeofInstruction)
  /\ build.code[n + 2] = Ins("jmp", "Count", updatePcAndContinueInVm, NoneOp)

\* C25: finishFunction emits the body of every recorded interrupt handler,
\* then of every recorded exit handler, each once and each binding its own
\* label once; an interrupt body loads pcpos + 1 and the address of the
\* resume label and jumps to the interrupt trampoline, an exit body loads
\* pcpos * sizeof(Instruction) and jumps to the trampoline that resumes the
\* interpreter; every label the main body branched to for a handler is bound
C25_HandlersFlushedOnce ==
  Finished =>
    /\ Len(build.code) = 4 * Len(interruptHandlers) + 3 * Len(exitHandlers)
    /\ \A k \in 1..Len(interruptHandlers) :
          /\ InterruptBodyAt(4 * (k - 1) + 1, k)
          /\ Cardinality(BindingsOf(interruptHandlers[k].self)) = 1
    /\ \A k \in 1..Len(exitHandlers) :
          /\ ExitBodyAt(4 * Len(interruptHandlers) + 3 * (k - 1) + 1, k)
          /\ Cardinality(BindingsOf(exitHandlers[k].self)) = 1
    /\ \A e \in PcEdges : Cardinality(BindingsOf(e.label)) = 1

\* a function with an interrupt and with two exits to different pcs
C25_Witness ==
  /\ Finished
  /\ Len(interruptHandlers) >= 1
  /\ Len(exitHandlers) = 2
  /\ PcEdges # {}

\* --------------------------------------------- release of dying operands
\* the last step lowered an instruction without a fault
StepLowered == phase = "lowering" /\ obs.last # NoInst

\* the instructions after position at that read reg before it is written
\* again (a call writes every register)
StaleReads(reg, at) ==
  {n \in (at + 1)..Len(build.code) :
     /\ reg \in ReadsOf(build.code[n])
     /\ \A m \in (at + 1)..(n - 1) :
          reg \notin WritesOf(build.code[m]) /\ build.code[m].op # "call"}

\* the release the code of TRY_CALL_FASTGETTM makes before its call
IsEarlyRelease(f) == obs.last.cmd = "TRY_CALL_FASTGETTM" /\ f.value = obs.last.a.index

\* the release the call wrapper makes of an operand handed to it as an
\* argument, once the arguments are in place
IsWrapperRelease(f) ==
  obs.last.cmd = "BARRIER_TABLE_FORWARD" /\ f.value = obs.last.a.index

\* C26: the register of a source operand whose last use is the lowered
\* instruction is released after all code that reads it was emitted: by
\* freeLastUseRegs at the end of lowerInst, or by TRY_CALL_FASTGETTM after
\* the last read of the operand, or by the call wrapper between the moves of
\* the arguments and the call (only spills of live values come between)
C26_ReleaseAfterReads ==
  StepLowered =>
    /\ \A f \in obs.frees :
          /\ f.value \in InstOperands(obs.last)
          /\ instructions[f.value].lastUse = blk.index
          /\ StaleReads(f.reg, f.at) = {}
          /\ IF IsEarlyRelease(f)
             THEN f.at >= 1 /\ f.reg \in ReadsOf(build.code[f.at])
             ELSE IF IsWrapperRelease(f)
             THEN /\ \E n \in 1..f.at : f.reg \in ReadsOf(build.code[n])
                  /\ \E n \in (f.at + 1)..Len(build.code) :
                        /\ build.code[n].op = "call"
                        /\ \A m \in (f.at + 1)..(n - 1) : build.code[m].op = "spill"
             ELSE f.at = Len(build.code)
    /\ \A i \in InstOperands(obs.last) :
          instructions[i].lastUse = blk.index /\ ~instructions[i].reusedReg
            => instructions[i].regX64 = noreg

\* TRY_CALL_FASTGETTM released the table's register before the call, and a
\* temporary took it over
C26_Witness ==
  /\ StepLowered
  /\ \E f \in obs.frees :
        /\ IsEarlyRelease(f)
        /\ f.at < Len(build.code)
        /\ \E n \in (f.at + 1)..Len(build.code) : f.reg \in WritesOf(build.code[n])

\* ------------------------------------------------ calls under ScopedSpills
\* the opcodes that call the runtime on one of their paths only
ScopedCalls == {"TRY_CALL_FASTGETTM", "BARRIER_TABLE_FORWARD", "CLOSE_UPVALS"}

\* the code of one of them was run and reached its end, where the paths of
\* BARRIER_TABLE_FORWARD and CLOSE_UPVALS rejoin
ScopedRun ==
  /\ obs.run.done
  /\ phase = "lowering"
  /\ obs.last.cmd \in ScopedCalls
  /\ obs.run.halt = "end"

\* the values that live on and were in a register before the instruction;
\* TRY_CALL_FASTGETTM takes rax for its result after the scope
HeldBefore ==
  {i \in LiveAfter : \E r \in Regs : obs.pre.reg[r] = i
                        /\ ~(obs.last.cmd = "TRY_CALL_FASTGETTM" /\ r = rax)}

AssertingOps == {"SETLIST", "CALL", "RETURN", "FORGLOOP"}
NoSpillOps == {"CALL", "RETURN"}

AllFree == \A r \in Regs : regs.free[r]

\* a step that lowered, or tried to lower, one of them
AssertingStep ==
  /\ obs'.last.cmd \in AssertingOps
  /\ ~blk.done
  /\ blk'.index # blk.index \/ phase' # phase

\* what the assertions of the opcode ask of the registers before the step
AssertsHold(cmd) == AllFree /\ (cmd \in NoSpillOps => regs.spills = {})

\* the lowering follows an INTERRUPT, or starts a block
AfterFullSpill == obs.interruptSnap # NoSnap
AtBlockStart == blk.index = blk.start

\* the step went through exactly when the assertions held; then it left
\* every register free and spilled nothing
AssertsGuard ==
  AssertingStep =>
    /\ phase' = "lowering" <=> AssertsHold(obs'.last.cmd)
    /\ phase' = "abort" => fault' \in {"assertAllFree", "assertNoSpills"}
    /\ phase' = "lowering" =>
          /\ \A r \in Regs : regs'.free[r]
          /\ regs'.spills = regs.spills
    /\ AfterFullSpill => AllFree
    /\ AfterFullSpill /\ phase' = "abort" => fault' = "assertNoSpills"

OwnerOf(r) == regs.users[r]

\* a register that is not free holds the result of a value lowered so far
\* that has a later use, and that value names the register
HoldsLiveResult(r) ==
  /\ OwnerOf(r) \in 1..blk.index
  /\ instructions[OwnerOf(r)].regX64 = r
  /\ instructions[OwnerOf(r)].lastUse = Later
  /\ ~instructions[OwnerOf(r)].spilled

\* the last step lowered a shift
ShiftLowered == \E k \in 1..Len(build.code) : build.code[k].op = "shl"

\* C29: after lowerInst returns, every register taken as a temporary inside
\* the opcode's case (the count register of a shift, the temporaries of the
\* table helpers, the registers handed to a call) is free again: a register
\* that is still allocated holds the result of a value with a later use
C29_ScratchReleased ==
  phase = "lowering" => \A r \in Regs : ~regs.free[r] => HoldsLiveResult(r)

\* a shift was lowered while rcx held a live value: the value was moved to
\* a spill slot, rcx is free after the step and the result is held elsewhere
C29_Witness ==
  /\ phase = "lowering"
  /\ ShiftLowered
  /\ regs.free[rcx]
  /\ regs.spills # {}
  /\ instructions[blk.index].regX64 # noreg
  /\ ~regs.free[instructions[blk.index].regX64]

\* ------------------------------------------------------------- coverage
\* the code of a COVERAGE was run
CoverageRun == phase = "lowering" /\ obs.last.cmd = "COVERAGE" /\ obs.run.done

\* the word of the instruction before the run and after it
WordBefore == obs.run.in.m1
WordAfter == obs.run.mem[InsnAt(uintOp(obs.last.a))].v

\* the hits of a word: its upper 24 bits as a signed number
HitsOf(v) == countFrom(shiftRight(v, 8, 31), 22) - (IF v[31] THEN 2 ^ 23 ELSE 0)

\* C30: the code of COVERAGE writes the 32-bit word of the instruction at
\* pc and nothing else; the low 8 bits of the word are unchanged and its
\* hits, the upper 24 bits, are one more than before unless they were
\* 2^23 - 1, which they stay: the counter never wraps
C30_CoverageSaturates ==
  CoverageRun =>
    /\ obs.run.halt = "end"
    /\ ~obs.run.undef
    /\ obs.run.stack = NoWrites
    /\ DOMAIN obs.run.mem = {InsnAt(uintOp(obs.last.a))}
    /\ obs.run.mem[InsnAt(uintOp(obs.last.a))].w = 32
    /\ lowBits(WordAfter, 8) = lowBits(WordBefore, 8)
    /\ HitsOf(WordAfter) = IF HitsOf(WordBefore) = 2 ^ 23 - 1 THEN 2 ^ 23 - 1
                           ELSE HitsOf(WordBefore) + 1
    /\ obs.run.lost = {}

\* a counter at the limit under the opcode 69 stays, with a live integer kept
C30_Witness ==
  /\ CoverageRun
  /\ WordBefore = InsnWord(2 ^ 23 - 1, 69)
  /\ WordAfter = WordBefore
  /\ LiveAfter # {}
  /\ uintOp(obs.last.a) = MaxPc

====
